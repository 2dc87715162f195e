------------------------- MODULE UsersHistoryProofs -------------------------
(***************************************************************************)
(* What a job that walks the users reports, for any number of users, sets  *)
(* and jobs: a dump implements the listing job of Roster, a scan handles   *)
(* every user of its vector that nobody deletes, and a count misses parked *)
(* users only.                                                             *)
(***************************************************************************)
EXTENDS UsersHistory, UsersStoreProofs

\* The program counters of a loop over a vector, and of the copy of one.
ScanPCs == {"scan", "check_deleted", "undel", "revive", "lock_user", "touch",
            "del", "flag", "unlock_user"}
CopyPCs == {"copy", "filter"}

\* What a job is at each place of the code, and that the iterator and the
\* users handled start anew with every loop.
JobShape(t) ==
  /\ job[t] = "none" <=> pc[t] = "free"
  /\ job[t] = "dump" => arg[t] = t
  /\ pc[t] \in {"check_deleted", "undel", "revive"} => job[t] = "dump"
  /\ pc[t] \in {"del", "flag"} => job[t] = "cleanup"
  /\ pc[t] = "filter" => job[t] = "select"
  /\ pc[t] \in ScanPCs \cup {"lock"} => job[t] \in Scans \cup {"sets_clear", "dump"}
  /\ pc[t] \notin CopyPCs \cup ScanPCs => pos[t] = 1
  /\ pc[t] \notin ScanPCs => out[t] = <<>>

\* The users at the first n places of a list.
First(s, n) == {s[i] : i \in 1..n}

\* The copy under way: it holds users the iterator has passed, and no other.
Copying(t) ==
  /\ pc[t] \in CopyPCs => Range(list[arg[t]]) \subseteq First(list[Vector], pos[t] - 1)
  /\ pc[t] = "filter" => pos[t] <= Len(list[Vector]) /\ cur[t] = list[Vector][pos[t]]

\* What the history variables say of the users there are now.
Remembers(t) ==
  IF pc[t] = "free" THEN always[t] = {} /\ ever[t] = {}
                    ELSE always[t] \subseteq Present /\ Present \subseteq ever[t]

\* The copy of a dump, before, while and after it is made.
Copied(t) ==
  job[t] = "dump" =>
    /\ pc[t] \in {"release", "reselect", "target", "copy"}
         => always[t] \subseteq Range(list[Vector])
    /\ pc[t] = "copy" =>
         /\ Range(list[t]) \subseteq ever[t]
         /\ always[t] \cap First(list[Vector], pos[t] - 1) \subseteq Range(list[t])
    /\ pc[t] \in {"filled", "lock"} \cup ScanPCs =>
         always[t] \subseteq Range(list[t]) /\ Range(list[t]) \subseteq ever[t]

\* How many users of its vector a scan is done with.
Passed(t) == IF pc[t] \in {"del", "flag", "unlock_user"} THEN pos[t] ELSE pos[t] - 1

\* The list o is made of places of s, in their order, that f gives.
Follows(f, o, s) ==
  /\ \A i \in DOMAIN o : o[i] = s[f[i]]
  /\ \A i, j \in DOMAIN o : i < j => f[i] < f[j]

\* The list o is made of the first n places of s, in their order, and misses
\* no user of D that is there.
Covers(o, s, n, D) ==
  /\ n <= Len(s)
  /\ \E f \in [DOMAIN o -> 1..n] : Follows(f, o, s)
  /\ \A i \in 1..n : s[i] \in D => s[i] \in Range(o)

\* The users a scan may not miss: a dump takes its copy whole, the other scans
\* skip the users that are deleted.
Due(t) == IF job[t] = "dump" THEN Ids ELSE always[t]

\* A loop under way: the user in hand is the one at its iterator, and what it
\* has handled covers the places it has passed.
Scanned(t) ==
  pc[t] \in ScanPCs =>
    /\ pc[t] # "scan" => pos[t] <= Len(list[arg[t]]) /\ cur[t] = list[arg[t]][pos[t]]
    /\ Covers(out[t], list[arg[t]], Passed(t), Due(t))

\* No set and no copy lists a user twice.
ListsOnce == \A v \in Vectors \ {Vector, NewUsers} : IsInjective(list[v])

HInv ==
  /\ \A t \in Jobbers : JobShape(t) /\ Copying(t) /\ Remembers(t) /\ Copied(t) /\ Scanned(t)
  /\ ListsOnce
-----------------------------------------------------------------------------
\* The threads, the vectors and their types, as every step below uses them.
LEMMA Names ==
  ASSUME TypeOK, HandsOK
  PROVE  /\ Main \in Threads /\ AutoDump \in Jobbers /\ Workers \subseteq Jobbers
         /\ Jobbers \subseteq Threads /\ Main \notin Jobbers /\ Nobody \notin Threads
         /\ Vector \in Vectors /\ NewUsers \in Vectors /\ Vector # NewUsers
         /\ \A t \in Jobbers : t \in Vectors /\ t # Vector /\ t # NewUsers /\ t \notin Sets
         /\ \A t \in Jobbers : arg[t] \in Vectors /\ arg[t] \in {Vector, t} \cup Sets
         /\ \A t \in Jobbers : arg[t] # NewUsers
         /\ \A t \in Jobbers :
              pc[t] \in {"reselect", "target", "copy", "filter", "filled", "wipe"} => arg[t] # Vector
         /\ list \in [Vectors -> Seq(Ids)]
         /\ DOMAIN pc = Threads /\ DOMAIN cur = Threads /\ DOMAIN job = Threads
         /\ DOMAIN arg = Jobbers /\ DOMAIN pos = Jobbers /\ DOMAIN out = Jobbers
<1>1. /\ Main \in Threads /\ AutoDump \in Jobbers /\ Workers \subseteq Jobbers
      /\ Jobbers \subseteq Threads /\ Main \notin Jobbers /\ Nobody \notin Threads
      /\ Vector \in Vectors /\ NewUsers \in Vectors /\ Vector # NewUsers
      /\ \A t \in Jobbers : t \in Vectors /\ t # Vector /\ t # NewUsers /\ t \notin Sets
  BY ThreadsAssumption, VectorsAssumption DEF Threads, Jobbers, Vectors
<1>2. /\ \A t \in Jobbers : arg[t] \in Vectors /\ arg[t] \in {Vector, t} \cup Sets
      /\ list \in [Vectors -> Seq(Ids)]
      /\ DOMAIN pc = Threads /\ DOMAIN cur = Threads /\ DOMAIN job = Threads
      /\ DOMAIN arg = Jobbers /\ DOMAIN pos = Jobbers /\ DOMAIN out = Jobbers
  BY DEF TypeOK
<1>3. \A t \in Jobbers : arg[t] # NewUsers
  BY <1>1, <1>2, VectorsAssumption
<1>4. \A t \in Jobbers :
        pc[t] \in {"reselect", "target", "copy", "filter", "filled", "wipe"} => arg[t] # Vector
  BY <1>1, VectorsAssumption DEF HandsOK
<1> QED  BY <1>1, <1>2, <1>3, <1>4

\* A step of thread t itself, and a step that leaves it alone, with the vectors
\* it holds and the one that belongs to it.
Own(t) ==
  \/ t \in Workers /\ \E j \in Jobs : Start(t, j)
  \/ t = AutoDump /\ AutoStart
  \/ Update(t) \/ OnUser(t) \/ JobStep(t)

Apart(t) ==
  /\ pc'[t] = pc[t] /\ cur'[t] = cur[t] /\ job'[t] = job[t]
  /\ arg'[t] = arg[t] /\ pos'[t] = pos[t] /\ out'[t] = out[t]
  /\ \A v \in Vectors : v = t \/ Holds(t, v) => list'[v] = list[v]

\* Every step is a step of one thread: it leaves all the jobs alone, or all but
\* the one whose step it is.
LEMMA OneActor ==
  ASSUME TypeOK, HandsOK, VectorLocksHeld, [Next]_vars
  PROVE  \E x \in Threads :
           /\ \A t \in Jobbers \ {x} : Apart(t)
           /\ x \in Jobbers => Own(x) \/ Apart(x)
<1> DEFINE Alone(x) == \A t \in Jobbers \ {x} : Apart(t)
<1>0. /\ Main \in Threads /\ AutoDump \in Jobbers /\ Workers \subseteq Jobbers
      /\ Jobbers \subseteq Threads /\ Main \notin Jobbers
      /\ Vector \in Vectors /\ NewUsers \in Vectors /\ Vector # NewUsers
      /\ \A t \in Jobbers : t \in Vectors /\ t # Vector /\ t # NewUsers /\ t \notin Sets
      /\ \A t \in Jobbers : arg[t] \in Vectors /\ arg[t] \in {Vector, t} \cup Sets
      /\ list \in [Vectors -> Seq(Ids)]
      /\ DOMAIN pc = Threads /\ DOMAIN cur = Threads /\ DOMAIN job = Threads
      /\ DOMAIN arg = Jobbers /\ DOMAIN pos = Jobbers /\ DOMAIN out = Jobbers
  BY Names
<1>a. ASSUME NEW x \in Threads, NEW y \in Threads, NEW v \in Vectors, Holds(x, v), Holds(y, v)
      PROVE  x = y
  BY <1>a DEF VectorLocksHeld
<1>b. ASSUME NEW x \in Jobbers, NEW y \in Jobbers, Holds(y, x) \/ y = x
      PROVE  y = x
  BY <1>0, <1>b DEF Holds, HoldsArg
<1>c. ASSUME NEW t \in Threads, NEW v \in Vectors,
             \A w \in Vectors \ {v} : list'[w] = list[w],
             Holds(t, v) \/ (v = t /\ t \in Jobbers) \/ owner[v] = Nobody,
             \A x \in Jobbers \ {t} : v # x
      PROVE  \A x \in Jobbers \ {t}, w \in Vectors : w = x \/ Holds(x, w) => list'[w] = list[w]
  <2> SUFFICES ASSUME NEW x \in Jobbers \ {t}, NEW w \in Vectors, w = x \/ Holds(x, w), w = v
               PROVE  FALSE
    BY <1>0, <1>c
  <2>1. Holds(x, v)
    BY <1>c
  <2>2. owner[v] = x /\ x # Nobody
    BY <1>0, <2>1, ThreadsAssumption DEF VectorLocksHeld, Threads
  <2>3. ~Holds(t, v)
    BY <1>0, <1>a, <2>1
  <2>4. v = t /\ t \in Jobbers
    BY <1>c, <2>2, <2>3
  <2> QED  BY <1>b, <2>1, <2>4
<1> USE DEF Goto, Acquire, Release, store, users, locks, progress
<1>1. ASSUME NEW u \in Ids, NEW c \in Commands, UserFind(u, c) PROVE Alone(Main)
  BY <1>0, <1>1 DEF UserFind, Apart
<1>2. ASSUME NEW u \in Ids, NEW c \in Commands, UserCreate(u, c) PROVE Alone(Main)
  BY <1>0, <1>2 DEF UserCreate, Apart
<1>3. ASSUME NEW u \in Ids, NEW c \in Commands, UserRevive(u, c) PROVE Alone(Main)
  BY <1>0, <1>3 DEF UserRevive, Apart
<1>4. ASSUME AddTrylock PROVE Alone(Main)
  BY <1>0, <1>4 DEF AddTrylock, Apart
<1>5. ASSUME AddParkLock PROVE Alone(Main)
  BY <1>0, <1>5 DEF AddParkLock, Apart
<1>6. ASSUME ClearInit PROVE Alone(Main)
  BY <1>0, <1>6 DEF ClearInit, Apart
<1>7. ASSUME AddPush PROVE Alone(Main)
  <2>1. \A w \in Vectors \ {Vector} : list'[w] = list[w]
    BY <1>0, <1>7 DEF AddPush
  <2>2. Holds(Main, Vector)
    BY <1>0, <1>7 DEF AddPush, Holds, HoldsVector, HoldsNewUsers, HoldsArg
  <2>3. \A x \in Jobbers \ {Main} : Vector # x
    BY <1>0
  <2>4. \A x \in Jobbers \ {Main}, w \in Vectors : w = x \/ Holds(x, w) => list'[w] = list[w]
    BY <1>0, <1>c, <2>1, <2>2, <2>3
  <2> QED  BY <1>0, <1>7, <2>4 DEF AddPush, Apart
<1>8. ASSUME AddPark PROVE Alone(Main)
  <2>1. \A w \in Vectors \ {NewUsers} : list'[w] = list[w]
    BY <1>0, <1>8 DEF AddPark
  <2>2. Holds(Main, NewUsers)
    BY <1>0, <1>8 DEF AddPark, Holds, HoldsVector, HoldsNewUsers, HoldsArg
  <2>3. \A x \in Jobbers \ {Main} : NewUsers # x
    BY <1>0
  <2>4. \A x \in Jobbers \ {Main}, w \in Vectors : w = x \/ Holds(x, w) => list'[w] = list[w]
    BY <1>0, <1>c, <2>1, <2>2, <2>3
  <2> QED  BY <1>0, <1>8, <2>4 DEF AddPark, Apart
<1>9. ASSUME AutoStart PROVE Alone(AutoDump)
  BY <1>0, <1>9 DEF AutoStart, Begin, Apart
<1>10. ASSUME NEW w \in Workers, NEW j \in Jobs, Start(w, j) PROVE Alone(w)
  <2>1. \E v : Begin(w, j, v)
    BY <1>10 DEF Start
  <2>2. \A x \in Jobbers \ {w}, v \in Vectors : v = x \/ Holds(x, v) => list'[v] = list[v]
    <3>1. CASE UNCHANGED list
      BY <3>1
    <3>2. CASE \E u \in hash : list' = [list EXCEPT ![w] = <<u>>]
      <4>1. PICK u \in hash : list' = [list EXCEPT ![w] = <<u>>]
        BY <3>2
      <4>2. \A v \in Vectors \ {w} : list'[v] = list[v]
        BY <1>0, <4>1
      <4> QED  BY <1>0, <1>c, <4>2
    <3> QED  BY <1>10, <3>1, <3>2 DEF Start
  <2> QED  BY <1>0, <2>1, <2>2 DEF Begin, Apart
<1>11. ASSUME NEW t \in Threads, UpdateLock(t) PROVE Alone(t)
  BY <1>0, <1>11 DEF UpdateLock, Apart
<1>12. ASSUME NEW t \in Threads, LockUser(t) PROVE Alone(t)
  BY <1>0, <1>12 DEF LockUser, Apart
<1>13. ASSUME NEW t \in Threads, Touch(t) PROVE Alone(t)
  BY <1>0, <1>13 DEF Touch, Apart
<1>14. ASSUME NEW t \in Threads, UnlockUser(t) PROVE Alone(t)
  BY <1>0, <1>14 DEF UnlockUser, Apart
<1>15. ASSUME NEW t \in Threads, DelFields(t) PROVE Alone(t)
  BY <1>0, <1>15 DEF DelFields, Apart
<1>16. ASSUME NEW t \in Threads, DelFlag(t) PROVE Alone(t)
  BY <1>0, <1>16 DEF DelFlag, Apart
<1>17. ASSUME NEW t \in Threads, UndelFields(t) PROVE Alone(t)
  BY <1>0, <1>17 DEF UndelFields, Apart
<1>18. ASSUME NEW t \in Threads, UndelFlag(t) PROVE Alone(t)
  BY <1>0, <1>18 DEF UndelFlag, Apart
<1>19. ASSUME NEW t \in Threads, UpdateMove(t) PROVE Alone(t)
  <2>1. \A w \in Vectors \ {Vector} : list'[w] = list[w]
    BY <1>0, <1>19 DEF UpdateMove
  <2>2. Holds(t, Vector)
    BY <1>0, <1>19 DEF UpdateMove, Holds, HoldsVector, HoldsNewUsers, HoldsArg
  <2>3. \A x \in Jobbers \ {t} : Vector # x
    BY <1>0
  <2>4. \A x \in Jobbers \ {t}, w \in Vectors : w = x \/ Holds(x, w) => list'[w] = list[w]
    BY <1>0, <1>c, <2>1, <2>2, <2>3
  <2> QED  BY <1>0, <1>19, <2>4 DEF UpdateMove, Apart
<1>20. ASSUME NEW t \in Threads, UpdateForget(t) PROVE Alone(t)
  <2>1. \A w \in Vectors \ {NewUsers} : list'[w] = list[w]
    BY <1>0, <1>20 DEF UpdateForget
  <2>2. Holds(t, NewUsers)
    BY <1>0, <1>20 DEF UpdateForget, Holds, HoldsVector, HoldsNewUsers, HoldsArg
  <2>3. \A x \in Jobbers \ {t} : NewUsers # x
    BY <1>0
  <2>4. \A x \in Jobbers \ {t}, w \in Vectors : w = x \/ Holds(x, w) => list'[w] = list[w]
    BY <1>0, <1>c, <2>1, <2>2, <2>3
  <2> QED  BY <1>0, <1>20, <2>4 DEF UpdateForget, Apart
<1>21. ASSUME NEW t \in Jobbers, LockVector(t) PROVE Alone(t)
  BY <1>0, <1>21 DEF LockVector, Apart
<1>22. ASSUME NEW t \in Jobbers, UnlockVector(t) PROVE Alone(t)
  BY <1>0, <1>22 DEF UnlockVector, Apart
<1>23. ASSUME NEW t \in Jobbers, SelectLock(t) PROVE Alone(t)
  BY <1>0, <1>23 DEF SelectLock, Apart
<1>24. ASSUME NEW t \in Jobbers, SelectFilled(t) PROVE Alone(t)
  BY <1>0, <1>24 DEF SelectFilled, Apart
<1>25. ASSUME NEW t \in Jobbers, SelectUnlock(t) PROVE Alone(t)
  BY <1>0, <1>25 DEF SelectUnlock, Apart
<1>26. ASSUME NEW t \in Jobbers, Lock(t) PROVE Alone(t)
  BY <1>0, <1>26 DEF Lock, Apart
<1>27. ASSUME NEW t \in Jobbers, ScanNext(t) PROVE Alone(t)
  BY <1>0, <1>27 DEF ScanNext, Apart
<1>28. ASSUME NEW t \in Jobbers, DumpCheck(t) PROVE Alone(t)
  BY <1>0, <1>28 DEF DumpCheck, Apart
<1>29. ASSUME NEW t \in Jobbers, SelectTarget(t) PROVE Alone(t)
  <2>1. \A w \in Vectors \ {arg[t]} : list'[w] = list[w]
    BY <1>0, <1>29 DEF SelectTarget
  <2>2. owner[arg[t]] = Nobody
    BY <1>0, <1>29 DEF SelectTarget, Holds, HoldsVector, HoldsNewUsers, HoldsArg
  <2>3. \A x \in Jobbers \ {t} : arg[t] # x
    BY <1>0
  <2>4. \A x \in Jobbers \ {t}, w \in Vectors : w = x \/ Holds(x, w) => list'[w] = list[w]
    BY <1>0, <1>c, <2>1, <2>2, <2>3
  <2> QED  BY <1>0, <1>29, <2>4 DEF SelectTarget, Apart
<1>30. ASSUME NEW t \in Jobbers, Wipe(t) PROVE Alone(t)
  <2>1. \A w \in Vectors \ {arg[t]} : list'[w] = list[w]
    BY <1>0, <1>30 DEF Wipe
  <2>2. Holds(t, arg[t]) /\ arg[t] \in Vectors /\ t \in Threads
    BY <1>0, <1>30 DEF Wipe, Holds, HoldsVector, HoldsNewUsers, HoldsArg
  <2>3. \A x \in Jobbers \ {t} : arg[t] # x
    BY <1>0
  <2>4. \A x \in Jobbers \ {t}, w \in Vectors : w = x \/ Holds(x, w) => list'[w] = list[w]
    BY <1>0, <1>c, <2>1, <2>2, <2>3, SMTT(30)
  <2> QED  BY <1>0, <1>30, <2>4 DEF Wipe, Apart
<1>31. ASSUME NEW t \in Jobbers, Finish(t) PROVE Alone(t)
  <2>1. \A w \in Vectors \ {t} : list'[w] = list[w]
    BY <1>0, <1>31 DEF Finish, Done
  <2>2. t \in Jobbers
    BY <1>0, <1>31 DEF Finish, Done, Holds, HoldsVector, HoldsNewUsers, HoldsArg
  <2>3. \A x \in Jobbers \ {t} : t # x
    BY <1>0
  <2>4. \A x \in Jobbers \ {t}, w \in Vectors : w = x \/ Holds(x, w) => list'[w] = list[w]
    BY <1>0, <1>c, <2>1, <2>2, <2>3
  <2> QED  BY <1>0, <1>31, <2>4 DEF Finish, Done, Apart
<1>32. ASSUME NEW t \in Jobbers, SelectNext(t) PROVE Alone(t)
  <2>1. Holds(t, arg[t]) /\ arg[t] \in Vectors /\ t \in Threads
    BY <1>0, <1>32 DEF SelectNext, Holds, HoldsArg
  <2>2. \A x \in Jobbers \ {t}, v \in Vectors : v = x \/ Holds(x, v) => list'[v] = list[v]
    <3>1. CASE UNCHANGED list
      BY <3>1
    <3>2. CASE list' = [list EXCEPT ![arg[t]] = Append(list[arg[t]], list[Vector][pos[t]])]
      <4>1. \A v \in Vectors \ {arg[t]} : list'[v] = list[v]
        BY <1>0, <3>2
      <4>2. \A x \in Jobbers \ {t} : arg[t] # x
        BY <1>0
      <4> QED  BY <1>c, <2>1, <4>1, <4>2
    <3> QED  BY <1>32, <3>1, <3>2 DEF SelectNext
  <2> QED  BY <1>0, <1>32, <2>2 DEF SelectNext, Apart
<1>33. ASSUME NEW t \in Jobbers, SelectFilter(t) PROVE Alone(t)
  <2>1. Holds(t, arg[t]) /\ arg[t] \in Vectors /\ t \in Threads
    BY <1>0, <1>33 DEF SelectFilter, Holds, HoldsArg
  <2>2. \A x \in Jobbers \ {t}, v \in Vectors : v = x \/ Holds(x, v) => list'[v] = list[v]
    <3>1. CASE UNCHANGED list
      BY <3>1
    <3>2. CASE list' = [list EXCEPT ![arg[t]] = Append(list[arg[t]], cur[t])]
      <4>1. \A v \in Vectors \ {arg[t]} : list'[v] = list[v]
        BY <1>0, <3>2
      <4>2. \A x \in Jobbers \ {t} : arg[t] # x
        BY <1>0
      <4> QED  BY <1>c, <2>1, <4>1, <4>2
    <3> QED  BY <1>33, <3>1, <3>2 DEF SelectFilter
  <2> QED  BY <1>0, <1>33, <2>2 DEF SelectFilter, Apart
<1>34. CASE UNCHANGED vars
  BY <1>0, <1>34 DEF vars, Apart
<1> HIDE DEF Goto, Acquire, Release, store, users, locks, progress
<1>35. CASE Next
  <2>1. ASSUME MainStep \/ Update(Main) \/ OnUser(Main)
                 \/ \E u \in Ids, c \in Commands : UserFind(u, c) \/ UserCreate(u, c) \/ UserRevive(u, c)
        PROVE  Alone(Main)
    BY <1>0, <2>1, <1>1, <1>2, <1>3, <1>4, <1>5, <1>6, <1>7, <1>8, <1>9, <1>10, <1>11,
       <1>12, <1>13, <1>14, <1>15, <1>16, <1>17, <1>18, <1>19, <1>20, <1>21, <1>22, <1>23,
       <1>24, <1>25, <1>26, <1>27, <1>28, <1>29, <1>30, <1>31, <1>32, <1>33
       DEF MainStep, Update, OnUser
  <2>2. ASSUME NEW t \in Jobbers, Own(t) PROVE Alone(t)
    BY <1>0, <2>2, <1>1, <1>2, <1>3, <1>4, <1>5, <1>6, <1>7, <1>8, <1>9, <1>10, <1>11,
       <1>12, <1>13, <1>14, <1>15, <1>16, <1>17, <1>18, <1>19, <1>20, <1>21, <1>22, <1>23,
       <1>24, <1>25, <1>26, <1>27, <1>28, <1>29, <1>30, <1>31, <1>32, <1>33
       DEF Own, Update, OnUser, JobStep
  <2>3. \/ MainStep \/ Update(Main) \/ OnUser(Main)
        \/ \E u \in Ids, c \in Commands : UserFind(u, c) \/ UserCreate(u, c) \/ UserRevive(u, c)
        \/ \E t \in Jobbers : Own(t)
    BY <1>0, <1>35 DEF Next, Request, Own, Threads
  <2> QED  BY <1>0, <2>1, <2>2, <2>3
<1> QED  BY <1>34, <1>35

-----------------------------------------------------------------------------
\* The steps that write a list.
LEMMA Writers ==
  ASSUME [Next]_vars
  PROVE  \/ UNCHANGED list
         \/ AddPush \/ AddPark
         \/ \E t \in Threads : UpdateMove(t) \/ UpdateForget(t)
         \/ \E w \in Workers, j \in Jobs : Start(w, j)
         \/ \E t \in Jobbers : SelectTarget(t) \/ SelectNext(t) \/ SelectFilter(t)
                                 \/ Wipe(t) \/ Finish(t)
<1> USE DEF store
<1>1. ASSUME NEW u \in Ids, NEW c \in Commands,
             UserFind(u, c) \/ UserCreate(u, c) \/ UserRevive(u, c)
      PROVE  UNCHANGED list
  BY <1>1 DEF UserFind, UserCreate, UserRevive
<1>2. ASSUME AutoStart \/ AddTrylock \/ AddParkLock \/ ClearInit
      PROVE  UNCHANGED list
  BY <1>2 DEF AutoStart, AddTrylock, AddParkLock, ClearInit
<1>3. ASSUME NEW t \in Threads, UpdateLock(t) \/ OnUser(t)
      PROVE  UNCHANGED list
  BY <1>3 DEF UpdateLock, OnUser, LockUser, Touch, UnlockUser, DelFields, DelFlag,
              UndelFields, UndelFlag
<1>4. ASSUME NEW t \in Jobbers,
             \/ LockVector(t) \/ UnlockVector(t) \/ SelectLock(t) \/ SelectFilled(t)
             \/ SelectUnlock(t) \/ Lock(t) \/ ScanNext(t) \/ DumpCheck(t)
      PROVE  UNCHANGED list
  BY <1>4 DEF LockVector, UnlockVector, SelectLock, SelectFilled, SelectUnlock, Lock,
              ScanNext, DumpCheck
<1>5. CASE UNCHANGED vars
  BY <1>5 DEF vars
<1>6. CASE Next
  BY <1>6, <1>1, <1>2, <1>3, <1>4 DEF Next, Request, MainStep, Update, JobStep
<1> QED  BY <1>5, <1>6

\* Users::vector only grows: a user put there stays.
LEMMA VectorGrows ==
  ASSUME TypeOK, HandsOK, [Next]_vars
  PROVE  Range(list[Vector]) \subseteq Range(list'[Vector])
<1>0. /\ Vector \in Vectors /\ NewUsers \in Vectors /\ Vector # NewUsers
      /\ Workers \subseteq Jobbers
      /\ \A t \in Jobbers : t # Vector
      /\ \A t \in Jobbers :
           pc[t] \in {"reselect", "target", "copy", "filter", "filled", "wipe"} => arg[t] # Vector
      /\ list \in [Vectors -> Seq(Ids)]
  BY Names
<1> USE DEF Goto
<1>1. CASE AddPush
  <2>1. cur[Main] \in Ids /\ list[Vector] \in Seq(Ids)
    BY <1>0, <1>1 DEF AddPush, HandsOK, TypeOK
  <2>2. list'[Vector] = Append(list[Vector], cur[Main])
    BY <1>0, <1>1 DEF AddPush
  <2> QED  BY <2>1, <2>2, AppendRange
<1>2. CASE AddPark
  BY <1>0, <1>2 DEF AddPark
<1>3. ASSUME NEW t \in Threads, UpdateMove(t)
      PROVE  Range(list[Vector]) \subseteq Range(list'[Vector])
  <2>1. list'[Vector] = list[Vector] \o list[NewUsers]
    BY <1>0, <1>3 DEF UpdateMove
  <2>2. list[Vector] \in Seq(Ids) /\ list[NewUsers] \in Seq(Ids)
    BY <1>0
  <2> QED  BY <2>1, <2>2, ConcatRange
<1>4. ASSUME NEW t \in Threads, UpdateForget(t)
      PROVE  list'[Vector] = list[Vector]
  BY <1>0, <1>4 DEF UpdateForget
<1>5. ASSUME NEW w \in Workers, NEW j \in Jobs, Start(w, j)
      PROVE  list'[Vector] = list[Vector]
  BY <1>0, <1>5 DEF Start
<1>6. ASSUME NEW t \in Jobbers, SelectTarget(t) PROVE list'[Vector] = list[Vector]
  BY <1>0, <1>6 DEF SelectTarget
<1>7. ASSUME NEW t \in Jobbers, SelectNext(t) PROVE list'[Vector] = list[Vector]
  BY <1>0, <1>7 DEF SelectNext
<1>8. ASSUME NEW t \in Jobbers, SelectFilter(t) PROVE list'[Vector] = list[Vector]
  BY <1>0, <1>8 DEF SelectFilter
<1>9. ASSUME NEW t \in Jobbers, Wipe(t) PROVE list'[Vector] = list[Vector]
  BY <1>0, <1>9 DEF Wipe
<1>10. ASSUME NEW t \in Jobbers, Finish(t) PROVE list'[Vector] = list[Vector]
  BY <1>0, <1>10 DEF Finish
<1> HIDE DEF Goto
<1> QED
  BY Writers, <1>1, <1>2, <1>3, <1>4, <1>5, <1>6, <1>7, <1>8, <1>9, <1>10

\* Where the users a command could find are listed: in vector or parked, and in
\* vector alone while vector_update has copied the parked ones.
LEMMA PresentListed ==
  ASSUME TypeOK, HandsOK, StoreConserved
  PROVE  /\ Present \subseteq Range(list[Vector]) \cup Range(list[NewUsers])
         /\ (\E t \in Threads : pc[t] = "forget") => Present \subseteq Range(list[Vector])
         /\ Range(list[Vector]) \subseteq hash \ InFlight
         /\ IsInjective(list[Vector])
<1>1. list[Vector] \in Seq(Ids) /\ list[NewUsers] \in Seq(Ids)
  BY Names
<1>2. Present \subseteq Range(Placed) /\ Range(Placed) = hash \ InFlight /\ IsInjective(Placed)
  BY DEF StoreConserved, Present
<1>3. CASE \E t \in Threads : pc[t] = "forget"
  BY <1>2, <1>3 DEF Placed
<1>4. CASE ~\E t \in Threads : pc[t] = "forget"
  <2>1. Placed = list[Vector] \o list[NewUsers]
    BY <1>4 DEF Placed
  <2>2. Range(Placed) = Range(list[Vector]) \cup Range(list[NewUsers])
    BY <1>1, <2>1, ConcatRange
  <2>3. IsInjective(list[Vector])
    <3> SUFFICES ASSUME NEW i \in DOMAIN list[Vector], NEW j \in DOMAIN list[Vector],
                        list[Vector][i] = list[Vector][j]
                 PROVE  i = j
      BY DEF IsInjective
    <3>1. /\ i \in DOMAIN Placed /\ Placed[i] = list[Vector][i]
          /\ j \in DOMAIN Placed /\ Placed[j] = list[Vector][j]
      <4> DEFINE a == list[Vector]
                 b == list[NewUsers]
      <4>1. a \in Seq(Ids) /\ b \in Seq(Ids) /\ Placed = a \o b /\ i \in DOMAIN a /\ j \in DOMAIN a
        BY <1>1, <2>1
      <4> HIDE DEF a, b
      <4>2. i \in 1..Len(a) /\ j \in 1..Len(a) /\ Len(a) \in Nat /\ Len(b) \in Nat
        BY <4>1
      <4>3. Placed \in Seq(Ids) /\ Len(Placed) = Len(a) + Len(b)
        BY <4>1, ConcatProperties
      <4>4. Placed[i] = a[i] /\ Placed[j] = a[j]
        BY <4>1, <4>2, ConcatProperties
      <4>5. i \in 1..Len(Placed) /\ j \in 1..Len(Placed)
        BY <4>2, <4>3
      <4>6. DOMAIN Placed = 1..Len(Placed)
        BY <4>3
      <4> QED  BY <4>4, <4>5, <4>6 DEF a
    <3> QED  BY <1>2, <3>1 DEF IsInjective
  <2> QED  BY <1>2, <1>4, <2>2, <2>3
<1> QED  BY <1>3, <1>4

\* Which step of thread t leads to which place of the code.
LEMMA Entries ==
  ASSUME TypeOK, NEW t \in Jobbers, Own(t)
  PROVE  /\ pc'[t] = "release" => UpdateForget(t)
         /\ pc'[t] = "reselect" => UnlockVector(t)
         /\ pc'[t] = "target" => SelectLock(t)
         /\ pc'[t] \in CopyPCs => SelectTarget(t) \/ SelectNext(t) \/ SelectFilter(t)
         /\ pc'[t] = "filled" => SelectFilled(t)
         /\ pc'[t] = "lock" =>
              SelectUnlock(t) \/ (pc[t] = "free" /\ job'[t] # "dump")
         /\ pc'[t] \in ScanPCs =>
              \/ Lock(t) \/ Wipe(t) \/ ScanNext(t) \/ LockUser(t) \/ Touch(t)
              \/ UnlockUser(t) \/ DelFields(t) \/ DelFlag(t) \/ UndelFields(t)
              \/ UndelFlag(t) \/ DumpCheck(t)
<1>0. /\ t \in Threads /\ t # Main /\ AutoDump \in Jobbers /\ Workers \subseteq Jobbers
      /\ pc \in [Threads -> MainPCs \cup JobPCs \cup SharedPCs]
      /\ job \in [Threads -> AllCommands \cup AllJobs \cup {"none"}]
  BY ThreadsAssumption DEF TypeOK, Threads, Jobbers
<1> USE <1>0 DEF Goto, CopyPCs, ScanPCs
<1>1. ASSUME NEW v, NEW j, Begin(t, j, v)
      PROVE  pc[t] = "free" /\ pc'[t] \in {"lock_vector", "lock"}
               /\ (pc'[t] = "lock" => job'[t] # "dump")
  BY <1>1 DEF Begin
<1>2. CASE t \in Workers /\ \E j \in Jobs : Start(t, j)
  BY <1>1, <1>2 DEF Start
<1>3. CASE t = AutoDump /\ AutoStart
  BY <1>1, <1>3 DEF AutoStart
<1>4. CASE Update(t)
  BY <1>4 DEF Update, UpdateLock, UpdateMove, UpdateForget
<1>5. CASE OnUser(t)
  BY <1>5 DEF OnUser, LockUser, Touch, UnlockUser, DelFields, DelFlag, UndelFields, UndelFlag
<1>6. CASE LockVector(t) \/ UnlockVector(t) \/ SelectLock(t) \/ SelectTarget(t)
  BY <1>6 DEF LockVector, UnlockVector, SelectLock, SelectTarget
<1>7. CASE SelectNext(t) \/ SelectFilter(t) \/ SelectFilled(t) \/ SelectUnlock(t)
  BY <1>7 DEF SelectNext, SelectFilter, SelectFilled, SelectUnlock
<1>8. CASE Lock(t) \/ Wipe(t) \/ ScanNext(t) \/ DumpCheck(t) \/ Finish(t)
  BY <1>8 DEF Lock, Wipe, ScanNext, DumpCheck, Finish
<1> QED  BY <1>2, <1>3, <1>4, <1>5, <1>6, <1>7, <1>8 DEF Own, JobStep

\* A job keeps its shape.
LEMMA StepShape ==
  ASSUME TypeOK, HandsOK, NEW t \in Jobbers, JobShape(t), Own(t) \/ Apart(t)
  PROVE  JobShape(t)'
<1>0. /\ t \in Threads /\ t # Main
      /\ pc \in [Threads -> MainPCs \cup JobPCs \cup SharedPCs]
      /\ job \in [Threads -> AllCommands \cup AllJobs \cup {"none"}]
      /\ job[t] \in AllJobs \cup {"none"}
      /\ arg \in [Jobbers -> Vectors]
      /\ pos \in [Jobbers -> Nat \ {0}]
      /\ out \in [Jobbers -> Seq(Ids)]
      /\ pc[t] \in {"lock_vector", "update", "move", "forget", "release"}
           => job[t] \in {"walk", "select", "dump"}
      /\ pc[t] \in {"reselect", "target", "copy", "filter", "filled"}
           => job[t] \in {"select", "dump"}
      /\ pc[t] = "wipe" => job[t] = "sets_clear"
  BY ThreadsAssumption DEF TypeOK, HandsOK, Threads, Jobbers
<1> USE <1>0 DEF Goto, CopyPCs, ScanPCs, JobShape, progress
<1>1. ASSUME NEW v, NEW j \in Jobs, Begin(t, j, v), j = "dump" => v = t
      PROVE  JobShape(t)'
  BY <1>1, LoadAssumption DEF Begin, AllJobs, Scans
<1>2. CASE t \in Workers /\ \E j \in Jobs : Start(t, j)
  BY <1>1, <1>2 DEF Start
<1>3. CASE t = AutoDump /\ AutoStart
  BY <1>3 DEF AutoStart, Begin
<1>4. CASE Update(t)
  BY <1>4 DEF Update, UpdateLock, UpdateMove, UpdateForget
<1>5. CASE LockUser(t) \/ Touch(t)
  BY <1>5 DEF LockUser, Touch, AllJobs, Scans
<1>6. CASE UnlockUser(t) \/ DelFields(t) \/ DelFlag(t) \/ UndelFields(t) \/ UndelFlag(t)
  BY <1>6 DEF UnlockUser, DelFields, DelFlag, UndelFields, UndelFlag
<1>7. CASE LockVector(t) \/ UnlockVector(t) \/ SelectLock(t) \/ SelectTarget(t)
  BY <1>7 DEF LockVector, UnlockVector, SelectLock, SelectTarget
<1>8. CASE SelectNext(t) \/ SelectFilter(t) \/ SelectFilled(t)
  BY <1>8 DEF SelectNext, SelectFilter, SelectFilled
<1>9. CASE SelectUnlock(t)
  BY <1>9 DEF SelectUnlock
<1>10. CASE Lock(t) \/ Wipe(t) \/ ScanNext(t) \/ DumpCheck(t)
  BY <1>10 DEF Lock, Wipe, ScanNext, DumpCheck, Scans
<1>11. CASE Finish(t)
  BY <1>11 DEF Finish
<1>12. CASE Apart(t)
  BY <1>12 DEF Apart
<1> QED
  BY <1>2, <1>3, <1>4, <1>5, <1>6, <1>7, <1>8, <1>9, <1>10, <1>11, <1>12
     DEF Own, OnUser, JobStep

-----------------------------------------------------------------------------
\* One more place of a list.
LEMMA FirstNext ==
  ASSUME NEW S, NEW s \in Seq(S), NEW n \in Nat \ {0}, n <= Len(s)
  PROVE  /\ First(s, n) = First(s, n - 1) \cup {s[n]}
         /\ s[n] \in S /\ s[n] \in Range(s)
         /\ IsInjective(s) => s[n] \notin First(s, n - 1)
<1>1. n \in DOMAIN s /\ 1..n = (1..(n - 1)) \cup {n}
  OBVIOUS
<1>2. IsInjective(s) => s[n] \notin First(s, n - 1)
  <2> SUFFICES ASSUME IsInjective(s), NEW i \in 1..(n - 1), s[n] = s[i] PROVE FALSE
    BY DEF First
  <2>1. i \in DOMAIN s /\ i # n
    OBVIOUS
  <2> QED  BY <1>1, <2>1 DEF IsInjective
<1> QED  BY <1>1, <1>2 DEF First, Range

\* The places of a list that are all of it.
LEMMA FirstAll ==
  ASSUME NEW S, NEW s \in Seq(S), NEW n \in Nat, n >= Len(s)
  PROVE  Range(s) \subseteq First(s, n)
BY DEF First, Range

\* No step puts a user twice in a set, or in the vector of a job.
LEMMA StepListsOnce ==
  ASSUME TypeOK, HandsOK, StoreConserved, ListsOnce, [Next]_vars,
         \A t \in Jobbers : Copying(t)
  PROVE  ListsOnce'
<1>0. /\ Vector \in Vectors /\ NewUsers \in Vectors /\ Vector # NewUsers
      /\ Workers \subseteq Jobbers
      /\ \A t \in Jobbers : arg[t] \in Vectors
      /\ list \in [Vectors -> Seq(Ids)]
  BY Names
<1>e. IsInjective(<<>>) /\ \A u : IsInjective(<<u>>)
  BY DEF IsInjective
<1>a. ASSUME NEW v \in Vectors, NEW w \in Vectors \ {Vector, NewUsers},
             IsInjective(list'[v]), list' = [list EXCEPT ![v] = list'[v]]
      PROVE  IsInjective(list'[w])
  BY <1>0, <1>a DEF ListsOnce
<1> SUFFICES ASSUME NEW w \in Vectors \ {Vector, NewUsers} PROVE IsInjective(list'[w])
  BY DEF ListsOnce
<1> USE DEF Goto
<1>1. CASE AddPush \/ AddPark
  BY <1>0, <1>1 DEF AddPush, AddPark, ListsOnce
<1>2. CASE \E t \in Threads : UpdateMove(t) \/ UpdateForget(t)
  BY <1>0, <1>2 DEF UpdateMove, UpdateForget, ListsOnce
<1>3. ASSUME NEW x \in Workers, NEW j \in Jobs, Start(x, j) PROVE IsInjective(list'[w])
  <2>1. CASE UNCHANGED list
    BY <2>1 DEF ListsOnce
  <2>2. CASE \E u \in hash : list' = [list EXCEPT ![x] = <<u>>]
    <3>1. PICK u \in hash : list' = [list EXCEPT ![x] = <<u>>]
      BY <2>2
    <3> QED  BY <1>0, <1>e, <3>1 DEF ListsOnce
  <2> QED  BY <1>3, <2>1, <2>2 DEF Start
<1>4. ASSUME NEW t \in Jobbers, SelectTarget(t) \/ Wipe(t) PROVE IsInjective(list'[w])
  BY <1>0, <1>4, <1>e DEF SelectTarget, Wipe, ListsOnce
<1>5. ASSUME NEW t \in Jobbers, Finish(t) PROVE IsInjective(list'[w])
  BY <1>0, <1>5, <1>e DEF Finish, ListsOnce
<1>6. ASSUME NEW t \in Jobbers, NEW u, pc[t] \in CopyPCs,
             pos[t] <= Len(list[Vector]), u = list[Vector][pos[t]],
             list' = [list EXCEPT ![arg[t]] = Append(list[arg[t]], u)]
      PROVE  IsInjective(list'[w])
  <2>1. IsInjective(list[Vector])
    BY PresentListed
  <2>2. pos[t] \in Nat \ {0}
    BY DEF TypeOK
  <2>3. u \in Ids /\ u \notin First(list[Vector], pos[t] - 1)
    BY <1>0, <1>6, <2>1, <2>2, FirstNext
  <2>4. u \notin Range(list[arg[t]])
    BY <1>6, <2>3 DEF Copying
  <2>5. CASE w = arg[t]
    <3>1. list[w] \in Seq(Ids) /\ IsInjective(list[w])
      BY <1>0 DEF ListsOnce
    <3>2. IsInjective(Append(list[w], u))
      BY <2>3, <2>4, <2>5, <3>1, AppendInjection
    <3> QED  BY <1>0, <1>6, <2>5, <3>2
  <2>6. CASE w # arg[t]
    BY <1>0, <1>6, <2>6 DEF ListsOnce
  <2> QED  BY <2>5, <2>6
<1>7. ASSUME NEW t \in Jobbers, SelectNext(t) PROVE IsInjective(list'[w])
  <2>1. CASE UNCHANGED list
    BY <2>1 DEF ListsOnce
  <2>2. CASE list' = [list EXCEPT ![arg[t]] = Append(list[arg[t]], list[Vector][pos[t]])]
    <3>1. pc[t] \in CopyPCs /\ pos[t] <= Len(list[Vector])
      BY <1>7 DEF SelectNext, CopyPCs
    <3> QED  BY <1>6, <2>2, <3>1
  <2> QED  BY <1>7, <2>1, <2>2 DEF SelectNext
<1>8. ASSUME NEW t \in Jobbers, SelectFilter(t) PROVE IsInjective(list'[w])
  <2>1. CASE UNCHANGED list
    BY <2>1 DEF ListsOnce
  <2>2. CASE list' = [list EXCEPT ![arg[t]] = Append(list[arg[t]], cur[t])]
    <3>1. pc[t] \in CopyPCs /\ pos[t] <= Len(list[Vector]) /\ cur[t] = list[Vector][pos[t]]
      BY <1>8 DEF SelectFilter, Copying, CopyPCs
    <3> QED  BY <1>6, <2>2, <3>1
  <2> QED  BY <1>8, <2>1, <2>2 DEF SelectFilter
<1>9. CASE UNCHANGED list
  BY <1>9 DEF ListsOnce
<1> HIDE DEF Goto
<1> QED  BY Writers, <1>1, <1>2, <1>3, <1>4, <1>5, <1>7, <1>8, <1>9

\* What a thread that copies holds.
LEMMA CopyHolds ==
  ASSUME TypeOK, HandsOK, NEW t \in Jobbers, pc[t] \in CopyPCs
  PROVE  Holds(t, Vector) /\ Holds(t, arg[t]) /\ arg[t] # Vector /\ arg[t] \in Vectors
BY Names DEF CopyPCs, Holds, HoldsVector, HoldsArg

\* A copy holds passed users only, as it goes on.
LEMMA StepCopying ==
  ASSUME TypeOK, HandsOK, NEW t \in Jobbers, Copying(t), Own(t) \/ Apart(t)
  PROVE  Copying(t)'
<1>0. /\ Vector \in Vectors /\ arg[t] \in Vectors
      /\ list \in [Vectors -> Seq(Ids)] /\ list[Vector] \in Seq(Ids)
      /\ t \in Threads /\ DOMAIN pc = Threads /\ DOMAIN cur = Threads /\ DOMAIN pos = Jobbers
      /\ pos[t] \in Nat \ {0}
  BY Names DEF TypeOK
<1> USE DEF Goto, CopyPCs
<1>1. CASE Apart(t)
  <2>1. CASE pc[t] \in CopyPCs
    <3>1. list'[Vector] = list[Vector] /\ list'[arg[t]] = list[arg[t]] /\ arg'[t] = arg[t]
      BY <1>0, <1>1, <2>1, CopyHolds DEF Apart
    <3> QED  BY <1>1, <3>1 DEF Copying, Apart
  <2>2. CASE pc[t] \notin CopyPCs
    BY <1>1, <2>2 DEF Copying, Apart
  <2> QED  BY <2>1, <2>2
<1>2. CASE SelectTarget(t)
  <2>1. list'[arg'[t]] = <<>> /\ pc'[t] = "copy"
    BY <1>0, <1>2 DEF SelectTarget, progress
  <2> QED  BY <2>1, EmptyRange DEF Copying
<1>3. CASE SelectNext(t)
  <2>0. pc[t] = "copy" /\ pos[t] <= Len(list[Vector]) /\ arg'[t] = arg[t] /\ arg[t] # Vector
    BY <1>3, CopyHolds DEF SelectNext
  <2>1. First(list[Vector], pos[t]) = First(list[Vector], pos[t] - 1) \cup {list[Vector][pos[t]]}
        /\ list[Vector][pos[t]] \in Ids
    BY <1>0, <2>0, FirstNext
  <2>2. CASE UNCHANGED list /\ pc'[t] = "copy" /\ pos'[t] = pos[t] + 1
    BY <1>0, <2>0, <2>1, <2>2 DEF Copying
  <2>3. CASE /\ list' = [list EXCEPT ![arg[t]] = Append(@, list[Vector][pos[t]])]
             /\ pc'[t] = "copy" /\ pos'[t] = pos[t] + 1
    <3>1. Range(Append(list[arg[t]], list[Vector][pos[t]]))
            = Range(list[arg[t]]) \cup {list[Vector][pos[t]]}
      BY <1>0, <2>1, AppendRange
    <3>2. list'[arg[t]] = Append(list[arg[t]], list[Vector][pos[t]]) /\ list'[Vector] = list[Vector]
      BY <1>0, <2>0, <2>3
    <3>3. pos'[t] - 1 = pos[t]
      BY <1>0, <2>3
    <3> QED  BY <2>0, <2>1, <2>3, <3>1, <3>2, <3>3 DEF Copying
  <2>4. CASE UNCHANGED list /\ pc'[t] = "filter" /\ pos'[t] = pos[t] /\ cur'[t] = list[Vector][pos[t]]
    BY <1>0, <2>0, <2>4 DEF Copying
  <2> QED  BY <1>0, <1>3, <2>2, <2>3, <2>4 DEF SelectNext
<1>4. CASE SelectFilter(t)
  <2>0. /\ pc[t] = "filter" /\ pc'[t] = "copy" /\ pos'[t] = pos[t] + 1
        /\ pos[t] <= Len(list[Vector]) /\ cur[t] = list[Vector][pos[t]]
        /\ arg'[t] = arg[t] /\ arg[t] # Vector
    BY <1>0, <1>4, CopyHolds DEF SelectFilter, Copying
  <2>1. First(list[Vector], pos[t]) = First(list[Vector], pos[t] - 1) \cup {cur[t]} /\ cur[t] \in Ids
    BY <1>0, <2>0, FirstNext
  <2>2. Range(list'[arg[t]]) \subseteq Range(list[arg[t]]) \cup {cur[t]} /\ list'[Vector] = list[Vector]
    <3>1. Range(Append(list[arg[t]], cur[t])) = Range(list[arg[t]]) \cup {cur[t]}
      BY <1>0, <2>1, AppendRange
    <3> QED  BY <1>0, <1>4, <2>0, <3>1 DEF SelectFilter
  <2>3. pos'[t] - 1 = pos[t]
    BY <1>0, <2>0
  <2> QED  BY <2>0, <2>1, <2>2, <2>3 DEF Copying
<1>5. CASE pc'[t] \notin CopyPCs
  BY <1>5 DEF Copying
<1> QED  BY <1>1, <1>2, <1>3, <1>4, <1>5, Entries

-----------------------------------------------------------------------------
\* A user that was there all the time is there, and one that is there counts
\* as having been there.
LEMMA StepRemembers ==
  ASSUME NEW t \in Jobbers, Remembers(t), HNext
  PROVE  /\ Remembers(t)'
         /\ pc[t] # "free" => always'[t] \subseteq always[t]
         /\ pc[t] # "free" /\ pc'[t] # "free" => ever[t] \subseteq ever'[t]
BY DEF Remembers, HNext

\* The copy of a dump lists every user that stays, and only users that were
\* there since the dump began.
LEMMA StepCopied ==
  ASSUME TypeOK, HandsOK, StoreConserved, NEW t \in Jobbers, JobShape(t), Remembers(t),
         Copying(t), Copied(t), Own(t) \/ Apart(t), HNext
  PROVE  Copied(t)'
<1>0. /\ Vector \in Vectors /\ NewUsers \in Vectors /\ t \in Vectors /\ t # Vector /\ Vector # NewUsers
      /\ list \in [Vectors -> Seq(Ids)] /\ list[Vector] \in Seq(Ids) /\ list[t] \in Seq(Ids)
      /\ t \in Threads /\ DOMAIN pc = Threads /\ DOMAIN cur = Threads /\ DOMAIN pos = Jobbers
      /\ DOMAIN job = Threads /\ DOMAIN arg = Jobbers
      /\ pos[t] \in Nat \ {0}
  BY Names DEF TypeOK
<1>h. /\ Remembers(t)' /\ [Next]_vars
      /\ pc[t] # "free" => always'[t] \subseteq always[t]
      /\ pc[t] # "free" /\ pc'[t] # "free" => ever[t] \subseteq ever'[t]
  BY StepRemembers DEF HNext
<1>g. Range(list[Vector]) \subseteq Range(list'[Vector])
  BY <1>h, VectorGrows
<1>s. job[t] = "dump" => arg[t] = t /\ pc[t] \notin {"filter", "wipe", "free"}
  BY DEF JobShape, HandsOK
<1> USE DEF Goto, CopyPCs, ScanPCs, progress
<1>1. CASE Apart(t)
  <2> SUFFICES ASSUME job[t] = "dump" PROVE Copied(t)'
    BY <1>1 DEF Apart, Copied
  <2>1. list'[t] = list[t] /\ pc'[t] = pc[t] /\ pos'[t] = pos[t] /\ job'[t] = job[t]
    BY <1>0, <1>1 DEF Apart
  <2>2. pc[t] = "copy" => list'[Vector] = list[Vector]
    BY <1>0, <1>1, CopyHolds DEF Apart
  <2> QED  BY <1>h, <1>g, <1>s, <2>1, <2>2 DEF Copied
<1>2. CASE Own(t)
  <2> SUFFICES ASSUME job'[t] = "dump" PROVE Copied(t)'
    BY DEF Copied
  <2>1. CASE pc'[t] = "release"
    <3>1. pc[t] = "forget" /\ list'[Vector] = list[Vector]
      BY <1>0, <1>2, <2>1, Entries DEF UpdateForget
    <3>2. always[t] \subseteq Range(list[Vector])
      BY <1>0, <3>1, PresentListed DEF Remembers
    <3> QED  BY <1>h, <2>1, <3>1, <3>2 DEF Copied
  <2>2. CASE pc'[t] \in {"reselect", "target"}
    <3>1. pc[t] \in {"release", "reselect"} /\ job[t] = "dump"
      BY <1>0, <1>2, <2>2, Entries DEF UnlockVector, SelectLock
    <3> QED  BY <1>h, <1>g, <2>2, <3>1 DEF Copied
  <2>3. CASE SelectTarget(t)
    <3>1. pc[t] = "target" /\ pc'[t] = "copy" /\ job[t] = "dump" /\ pos'[t] = pos[t] /\ arg[t] = t
      BY <1>0, <1>s, <2>3 DEF SelectTarget
    <3>2. list'[t] = <<>> /\ pos[t] = 1
      BY <1>0, <2>3, <3>1 DEF SelectTarget, JobShape
    <3>3. First(list'[Vector], pos'[t] - 1) = {}
      BY <3>1, <3>2 DEF First
    <3> QED  BY <1>h, <1>g, <3>1, <3>2, <3>3, EmptyRange DEF Copied
  <2>4. CASE SelectNext(t)
    <3> DEFINE u == list[Vector][pos[t]]
    <3>1. /\ pc[t] = "copy" /\ pc'[t] = "copy" /\ job[t] = "dump" /\ arg[t] = t
          /\ pos[t] <= Len(list[Vector]) /\ list'[Vector] = list[Vector]
          /\ pos'[t] - 1 = pos[t]
          /\ (deleted[u] /\ list'[t] = list[t]) \/ (~deleted[u] /\ list'[t] = Append(list[t], u))
      BY <1>0, <1>s, <2>4 DEF SelectNext
    <3>2. /\ First(list[Vector], pos[t]) = First(list[Vector], pos[t] - 1) \cup {u}
          /\ u \in Ids /\ u \in Range(list[Vector])
      BY <1>0, <3>1, FirstNext
    <3>3. /\ Range(list[t]) \subseteq ever[t]
          /\ always[t] \cap First(list[Vector], pos[t] - 1) \subseteq Range(list[t])
          /\ always[t] \subseteq Range(list[Vector])
      BY <3>1 DEF Copied
    <3>4. CASE deleted[u] /\ list'[t] = list[t]
      <4>1. u \notin always[t]
        BY <3>1, <3>4 DEF Remembers, Present
      <4> QED  BY <1>h, <3>1, <3>2, <3>3, <3>4, <4>1 DEF Copied
    <3>5. CASE ~deleted[u] /\ list'[t] = Append(list[t], u)
      <4>1. u \in ever[t]
        BY <3>1, <3>2, <3>5, PresentListed DEF Remembers, Present
      <4>2. Range(list'[t]) = Range(list[t]) \cup {u}
        BY <1>0, <3>2, <3>5, AppendRange
      <4> QED  BY <1>h, <3>1, <3>2, <3>3, <4>1, <4>2 DEF Copied
    <3> QED  BY <3>1, <3>4, <3>5
  <2>5. CASE SelectFilter(t)
    BY <1>0, <1>s, <2>5 DEF SelectFilter
  <2>6. CASE pc'[t] = "filled"
    <3>1. /\ pc[t] = "copy" /\ job[t] = "dump" /\ list' = list
          /\ pos[t] > Len(list[Vector])
      BY <1>0, <1>2, <2>6, Entries DEF SelectFilled, store
    <3>2. Range(list[Vector]) \subseteq First(list[Vector], pos[t] - 1)
      <4>1. pos[t] - 1 \in Nat /\ pos[t] - 1 >= Len(list[Vector])
        BY <1>0, <3>1
      <4> QED  BY <1>0, <4>1, FirstAll
    <3>3. always[t] \subseteq Range(list[t]) /\ Range(list[t]) \subseteq ever[t]
      BY <3>1, <3>2 DEF Copied
    <3> QED  BY <1>h, <2>6, <3>1, <3>3 DEF Copied
  <2>7. CASE pc'[t] = "lock"
    <3>1. pc[t] = "filled" /\ job[t] = "dump" /\ list' = list
      BY <1>0, <1>2, <2>7, Entries DEF SelectUnlock, store
    <3> QED  BY <1>h, <2>7, <3>1 DEF Copied
  <2>8. CASE pc'[t] \in ScanPCs
    <3>1. pc[t] \in {"lock"} \cup ScanPCs /\ job[t] = "dump" /\ list' = list
      <4>1. CASE Lock(t) \/ Wipe(t) \/ ScanNext(t) \/ DumpCheck(t)
        BY <1>0, <1>s, <4>1 DEF Lock, Wipe, ScanNext, DumpCheck, store
      <4>2. CASE \/ LockUser(t) \/ Touch(t) \/ UnlockUser(t) \/ DelFields(t) \/ DelFlag(t)
                 \/ UndelFields(t) \/ UndelFlag(t)
        <5>1. t # Main
          BY Names
        <5> QED
          BY <1>0, <4>2, <5>1 DEF LockUser, Touch, UnlockUser, DelFields, DelFlag, UndelFields, UndelFlag, store
      <4> QED  BY <1>2, <2>8, <4>1, <4>2, Entries
    <3> QED  BY <1>h, <2>8, <3>1 DEF Copied
  <2>9. CASE pc'[t] \notin {"release", "reselect", "target", "copy", "filled", "lock"} \cup ScanPCs
    BY <2>9 DEF Copied
  <2> QED
    BY <1>2, <2>1, <2>2, <2>3, <2>4, <2>5, <2>6, <2>7, <2>8, <2>9, Entries
<1> QED  BY <1>1, <1>2

-----------------------------------------------------------------------------
\* A scan that starts has covered nothing, of any list.
LEMMA CoversNone ==
  ASSUME NEW S, NEW s \in Seq(S), NEW D
  PROVE  Covers(<<>>, s, 0, D)
<1>1. [i \in {} |-> 0] \in [DOMAIN <<>> -> 1..0]
  OBVIOUS
<1>2. Follows([i \in {} |-> 0], <<>>, s)
  BY DEF Follows
<1>3. 0 <= Len(s) /\ 1..0 = {}
  OBVIOUS
<1> QED  BY <1>1, <1>2, <1>3 DEF Covers

\* A scan that must not miss fewer users covers what it covered.
LEMMA CoversLess ==
  ASSUME NEW o, NEW s, NEW n, NEW D, NEW E, E \subseteq D, Covers(o, s, n, D)
  PROVE  Covers(o, s, n, E)
BY DEF Covers

\* A scan may pass a user it need not handle.
LEMMA CoversSkip ==
  ASSUME NEW S, NEW s \in Seq(S), NEW o, NEW n \in Nat, NEW D,
         Covers(o, s, n, D), n + 1 <= Len(s), s[n + 1] \notin D
  PROVE  Covers(o, s, n + 1, D)
<1>1. PICK f \in [DOMAIN o -> 1..n] : Follows(f, o, s)
  BY DEF Covers
<1>2. f \in [DOMAIN o -> 1..(n + 1)]
  OBVIOUS
<1>3. \A i \in 1..(n + 1) : s[i] \in D => s[i] \in Range(o)
  BY DEF Covers
<1> QED  BY <1>1, <1>2, <1>3 DEF Covers

\* A scan that handles the next user covers one place more.
LEMMA CoversTake ==
  ASSUME NEW S, NEW s \in Seq(S), NEW o \in Seq(S), NEW n \in Nat, NEW D,
         Covers(o, s, n, D), n + 1 <= Len(s)
  PROVE  Covers(Append(o, s[n + 1]), s, n + 1, D)
<1> DEFINE u == s[n + 1]
           p == Append(o, u)
<1>1. PICK f \in [DOMAIN o -> 1..n] : Follows(f, o, s)
  BY DEF Covers
<1>2. u \in S
  OBVIOUS
<1>3. /\ p \in Seq(S) /\ Range(p) = Range(o) \cup {u}
      /\ DOMAIN p = DOMAIN o \cup {Len(o) + 1} /\ Len(o) + 1 \notin DOMAIN o
      /\ \A i \in DOMAIN o : p[i] = o[i] /\ i <= Len(o)
      /\ p[Len(o) + 1] = u
  <2>1. p \in Seq(S) /\ Range(p) = Range(o) \cup {u}
    BY <1>2, AppendRange
  <2>2. DOMAIN p = DOMAIN o \cup {Len(o) + 1} /\ Len(o) + 1 \notin DOMAIN o
    BY <1>2
  <2>3. (\A i \in DOMAIN o : p[i] = o[i] /\ i <= Len(o)) /\ p[Len(o) + 1] = u
    BY <1>2
  <2> QED  BY <2>1, <2>2, <2>3
<1> DEFINE g == [i \in DOMAIN p |-> IF i = Len(o) + 1 THEN n + 1 ELSE f[i]]
<1> HIDE DEF p
<1>4. g \in [DOMAIN p -> 1..(n + 1)]
  BY <1>3
<1>5. Follows(g, p, s)
  <2>1. \A i \in DOMAIN p : p[i] = s[g[i]]
    BY <1>1, <1>3 DEF Follows
  <2>2. \A i, j \in DOMAIN p : i < j => g[i] < g[j]
    <3> SUFFICES ASSUME NEW i \in DOMAIN p, NEW j \in DOMAIN p, i < j PROVE g[i] < g[j]
      OBVIOUS
    <3>1. CASE j = Len(o) + 1
      <4>1. i \in DOMAIN o
        BY <1>3, <3>1
      <4>2. f[i] \in 1..n /\ g[i] = f[i] /\ g[j] = n + 1
        BY <1>3, <3>1, <4>1
      <4> QED  BY <4>2
    <3>2. CASE j # Len(o) + 1
      <4>1. j \in DOMAIN o /\ j <= Len(o) /\ i # Len(o) + 1
        BY <1>3, <3>2
      <4>2. i \in DOMAIN o
        BY <1>3, <4>1
      <4> QED  BY <1>1, <1>3, <4>1, <4>2 DEF Follows
    <3> QED  BY <3>1, <3>2
  <2> QED  BY <2>1, <2>2 DEF Follows
<1>6. \A i \in 1..(n + 1) : s[i] \in D => s[i] \in Range(p)
  <2>1. \A i \in 1..(n + 1) : i \in 1..n \/ i = n + 1
    OBVIOUS
  <2> QED  BY <1>3, <2>1 DEF Covers
<1> QED  BY <1>4, <1>5, <1>6 DEF Covers, p

\* What a thread that scans holds.
LEMMA ScanHolds ==
  ASSUME TypeOK, HandsOK, NEW t \in Jobbers, pc[t] \in ScanPCs
  PROVE  Holds(t, arg[t]) /\ arg[t] \in Vectors
BY Names DEF ScanPCs, Holds, HoldsArg

\* A scan covers the places its iterator has passed, as it goes on.
LEMMA StepScanned ==
  ASSUME TypeOK, HandsOK, NEW t \in Jobbers, JobShape(t), Remembers(t), Scanned(t),
         Own(t) \/ Apart(t), HNext
  PROVE  Scanned(t)'
<1>0. /\ arg[t] \in Vectors /\ list \in [Vectors -> Seq(Ids)] /\ list[arg[t]] \in Seq(Ids)
      /\ t \in Threads /\ t # Main /\ DOMAIN pc = Threads /\ DOMAIN cur = Threads /\ DOMAIN job = Threads
      /\ DOMAIN pos = Jobbers /\ DOMAIN arg = Jobbers /\ DOMAIN out = Jobbers
      /\ pos[t] \in Nat \ {0} /\ out[t] \in Seq(Ids)
  BY Names DEF TypeOK
<1>h. pc[t] # "free" => always'[t] \subseteq always[t]
  BY StepRemembers
<1> DEFINE L == list[arg[t]]
<1>d. ASSUME pc[t] # "free", job'[t] = job[t] PROVE Due(t)' \subseteq Due(t)
  BY <1>d, <1>h DEF Due
\* A step that covers nothing more.
<1>q. ASSUME pc[t] \in ScanPCs, list'[arg'[t]] = L, cur'[t] = cur[t], job'[t] = job[t],
             out'[t] = out[t], Passed(t)' = Passed(t),
             pc'[t] # "scan" => pc[t] # "scan" /\ pos'[t] = pos[t]
      PROVE  Scanned(t)'
  <2>1. Covers(out[t], L, Passed(t), Due(t)) /\ Due(t)' \subseteq Due(t)
    BY <1>q, <1>d DEF Scanned, ScanPCs
  <2>2. Covers(out[t], L, Passed(t), Due(t)')
    <3> HIDE DEF L
    <3>1. \A E : E \subseteq Due(t) => Covers(out[t], L, Passed(t), E)
      BY <2>1, CoversLess
    <3> QED  BY <2>1, <3>1
  <2> QED  BY <1>q, <2>2 DEF Scanned
<1> USE DEF Goto, progress, store
<1>1. CASE Apart(t)
  <2>1. CASE pc[t] \in ScanPCs
    <3>1. list'[arg'[t]] = L
      BY <1>1, <2>1, ScanHolds DEF Apart
    <3>2. Passed(t)' = Passed(t)
      BY <1>1 DEF Apart, Passed
    <3> QED  BY <1>1, <1>q, <2>1, <3>1, <3>2 DEF Apart
  <2>2. CASE pc[t] \notin ScanPCs
    BY <1>1, <2>2 DEF Apart, Scanned
  <2> QED  BY <2>1, <2>2
<1>2. CASE Lock(t) \/ Wipe(t)
  <2> SUFFICES ASSUME pc'[t] = "scan" PROVE Scanned(t)'
    BY <1>0, <1>2 DEF Lock, Wipe, Scanned, ScanPCs
  <2>1. pos'[t] = 1 /\ out'[t] = <<>>
    BY <1>0, <1>2 DEF Lock, Wipe, JobShape, CopyPCs, ScanPCs
  <2>2. list'[arg'[t]] \in Seq(Ids)
    <3>1. CASE Lock(t)
      BY <1>0, <3>1 DEF Lock
    <3>2. CASE Wipe(t)
      BY <1>0, <3>2, EmptyRange DEF Wipe
    <3> QED  BY <1>2, <3>1, <3>2
  <2>3. Passed(t)' = 0
    BY <1>0, <2>1 DEF Passed
  <2>4. Covers(<<>>, list'[arg'[t]], 0, Due(t)')
    BY <2>2, CoversNone
  <2> QED  BY <2>1, <2>3, <2>4 DEF Scanned
<1>3. CASE ScanNext(t)
  <2>0. /\ pc[t] = "scan" /\ pos[t] <= Len(L) /\ list'[arg'[t]] = L /\ out'[t] = out[t]
        /\ job'[t] = job[t] /\ Passed(t) = pos[t] - 1
    BY <1>0, <1>3 DEF ScanNext, Passed
  <2>1. CASE job[t] # "dump" /\ deleted[L[pos[t]]]
    <3>1. pc'[t] = "scan" /\ pos'[t] = pos[t] + 1
      BY <1>0, <1>3, <2>1 DEF ScanNext
    <3>2. Passed(t)' = (pos[t] - 1) + 1 /\ pos[t] - 1 \in Nat /\ (pos[t] - 1) + 1 = pos[t]
      BY <1>0, <3>1 DEF Passed
    <3>3. L[pos[t]] \notin Due(t)
      BY <2>0, <2>1 DEF Due, Remembers, Present
    <3>4. Covers(out[t], L, pos[t] - 1, Due(t))
      BY <2>0 DEF Scanned, ScanPCs
    <3>5. Covers(out[t], L, (pos[t] - 1) + 1, Due(t))
      <4> DEFINE n == pos[t] - 1
      <4>1. n \in Nat /\ n + 1 <= Len(L) /\ L[n + 1] \notin Due(t) /\ Covers(out[t], L, n, Due(t))
        BY <2>0, <3>2, <3>3, <3>4
      <4>2. L \in Seq(Ids)
        BY <1>0
      <4> HIDE DEF n, L
      <4>3. Covers(out[t], L, n + 1, Due(t))
        BY <4>1, <4>2, CoversSkip
      <4> QED  BY <4>3 DEF n
    <3>6. Due(t)' \subseteq Due(t)
      BY <1>d, <2>0
    <3>7. Covers(out[t], L, (pos[t] - 1) + 1, Due(t)')
      <4> DEFINE n == (pos[t] - 1) + 1
      <4>1. Covers(out[t], L, n, Due(t))
        BY <3>5
      <4> HIDE DEF n, L
      <4>2. Covers(out[t], L, n, Due(t)')
        BY <3>6, <4>1, CoversLess
      <4> QED  BY <4>2 DEF n
    <3> QED  BY <2>0, <3>1, <3>2, <3>7 DEF Scanned
  <2>2. CASE ~(job[t] # "dump" /\ deleted[L[pos[t]]])
    <3>1. pc'[t] = "lock_user" /\ pos'[t] = pos[t] /\ cur'[t] = L[pos[t]]
      BY <1>0, <1>3, <2>2 DEF ScanNext
    <3>2. Passed(t)' = pos[t] - 1
      BY <3>1 DEF Passed
    <3>3. Covers(out[t], L, pos[t] - 1, Due(t))
      BY <2>0 DEF Scanned, ScanPCs
    <3>6. Due(t)' \subseteq Due(t)
      BY <1>d, <2>0
    <3>7. Covers(out[t], L, pos[t] - 1, Due(t)')
      <4> HIDE DEF L
      <4> QED  BY <3>3, <3>6, CoversLess
    <3> QED  BY <2>0, <3>1, <3>2, <3>7 DEF Scanned
  <2> QED  BY <2>1, <2>2
<1>4. CASE LockUser(t) \/ DumpCheck(t) \/ UndelFields(t) \/ UndelFlag(t)
  <2>1. /\ pc[t] \in {"lock_user", "check_deleted", "undel", "revive"}
        /\ pc'[t] \in {"init", "del", "check_deleted", "touch", "undel", "revive"}
        /\ pc'[t] # "del"
        /\ list'[arg'[t]] = L /\ cur'[t] = cur[t] /\ job'[t] = job[t] /\ out'[t] = out[t] /\ pos'[t] = pos[t]
    <3>1. job[t] # "user_delete"
      BY <1>0 DEF TypeOK, AllJobs, Scans
    <3> QED  BY <1>0, <1>4, <3>1 DEF LockUser, DumpCheck, UndelFields, UndelFlag
  <2>2. Passed(t)' = Passed(t)
    BY <2>1 DEF Passed
  <2> QED  BY <1>q, <2>1, <2>2 DEF ScanPCs
<1>5. CASE DelFields(t) \/ DelFlag(t)
  <2>1. /\ pc[t] \in {"del", "flag"} /\ pc'[t] \in {"flag", "unlock_user"}
        /\ list'[arg'[t]] = L /\ cur'[t] = cur[t] /\ job'[t] = job[t] /\ out'[t] = out[t] /\ pos'[t] = pos[t]
    BY <1>0, <1>5 DEF DelFields, DelFlag
  <2>2. Passed(t)' = Passed(t)
    BY <2>1 DEF Passed
  <2> QED  BY <1>q, <2>1, <2>2 DEF ScanPCs
<1>6. CASE UnlockUser(t)
  <2>1. /\ pc[t] = "unlock_user" /\ pc'[t] = "scan"
        /\ list'[arg'[t]] = L /\ job'[t] = job[t] /\ out'[t] = out[t] /\ pos'[t] = pos[t] + 1
    BY <1>0, <1>6 DEF UnlockUser
  <2>2. Passed(t)' = Passed(t)
    BY <1>0, <2>1 DEF Passed
  <2>3. Covers(out[t], L, Passed(t), Due(t)) /\ Due(t)' \subseteq Due(t)
    BY <2>1, <1>d DEF Scanned, ScanPCs
  <2>4. Covers(out[t], L, Passed(t), Due(t)')
    <3> HIDE DEF L
    <3> QED  BY <2>3, CoversLess
  <2> QED  BY <2>1, <2>2, <2>4 DEF Scanned
<1>7. CASE Touch(t)
  <2>1. /\ pc[t] = "touch" /\ pc'[t] \in {"unlock_user", "del"}
        /\ list'[arg'[t]] = L /\ cur'[t] = cur[t] /\ job'[t] = job[t] /\ pos'[t] = pos[t]
        /\ out'[t] = Append(out[t], cur[t])
    BY <1>0, <1>7 DEF Touch
  <2>2. Passed(t)' = pos[t] /\ Passed(t) = pos[t] - 1
    BY <2>1 DEF Passed
  <2>3. /\ Covers(out[t], L, pos[t] - 1, Due(t)) /\ Due(t)' \subseteq Due(t)
        /\ pos[t] <= Len(L) /\ cur[t] = L[pos[t]]
    BY <2>1, <2>2, <1>d DEF Scanned, ScanPCs
  <2>4. Covers(Append(out[t], cur[t]), L, pos[t], Due(t)')
    <3> DEFINE n == pos[t] - 1
    <3>1. n \in Nat /\ n + 1 = pos[t] /\ n + 1 <= Len(L) /\ cur[t] = L[n + 1] /\ Covers(out[t], L, n, Due(t))
      BY <1>0, <2>3
    <3>2. L \in Seq(Ids) /\ out[t] \in Seq(Ids)
      BY <1>0
    <3> HIDE DEF n, L
    <3>3. Covers(Append(out[t], L[n + 1]), L, n + 1, Due(t))
      BY <3>1, <3>2, CoversTake
    <3>4. Covers(Append(out[t], cur[t]), L, pos[t], Due(t))
      BY <3>1, <3>3
    <3> QED  BY <2>3, <3>4, CoversLess
  <2> QED  BY <2>1, <2>2, <2>3, <2>4 DEF Scanned
<1>8. CASE pc'[t] \notin ScanPCs
  BY <1>8 DEF Scanned
<1> QED  BY <1>1, <1>2, <1>3, <1>4, <1>5, <1>6, <1>7, <1>8, Entries

-----------------------------------------------------------------------------
\* The inductive invariant of the history: with the invariant of the store, on
\* which the copies and scans rely for their mutexes and for the users of
\* vector.
AllInv == IInv /\ HInv

\* The server starts in it.
LEMMA InitAll == HInit => AllInv
<1> SUFFICES ASSUME HInit PROVE AllInv
  OBVIOUS
<1>1. IInv
  BY InitInv DEF HInit
<1>2. ASSUME NEW t \in Jobbers
      PROVE  JobShape(t) /\ Copying(t) /\ Remembers(t) /\ Copied(t) /\ Scanned(t)
  <2>1. /\ pc[t] = "free" /\ job[t] = "none" /\ pos[t] = 1 /\ out[t] = <<>>
        /\ always[t] = {} /\ ever[t] = {}
    BY ThreadsAssumption DEF HInit, Init, Threads
  <2> QED  BY <2>1 DEF JobShape, Copying, Remembers, Copied, Scanned, ScanPCs, CopyPCs
<1>3. ListsOnce
  BY DEF HInit, Init, ListsOnce, IsInjective
<1> QED  BY <1>1, <1>2, <1>3 DEF AllInv, HInv

\* Every step keeps it.
LEMMA StepAll == AllInv /\ [HNext]_hvars => AllInv'
<1> SUFFICES ASSUME AllInv, [HNext]_hvars PROVE AllInv'
  OBVIOUS
<1>0. /\ TypeOK /\ HandsOK /\ VectorLocksHeld /\ StoreConserved /\ ListsOnce
      /\ \A t \in Jobbers : JobShape(t) /\ Copying(t) /\ Remembers(t) /\ Copied(t) /\ Scanned(t)
  BY DEF AllInv, IInv, LocksHeld, Conserved, HInv
<1>1. [Next]_vars
  BY DEF HNext, hvars
<1>2. IInv'
  BY <1>1, StepInv DEF AllInv
<1>3. ListsOnce'
  BY <1>0, <1>1, StepListsOnce
<1>4. ASSUME NEW t \in Jobbers
      PROVE  (JobShape(t) /\ Copying(t) /\ Remembers(t) /\ Copied(t) /\ Scanned(t))'
  <2>1. CASE HNext
    <3>1. Own(t) \/ Apart(t)
      BY <1>0, <1>1, OneActor
    <3> QED  BY <1>0, <2>1, <3>1, StepShape, StepCopying, StepRemembers, StepCopied, StepScanned
  <2>2. CASE UNCHANGED hvars
    BY <1>0, <2>2 DEF hvars, vars, JobShape, Copying, Remembers, Present, InFlight, Copied,
                      Scanned, Passed, Due
  <2> QED  BY <2>1, <2>2
<1> QED  BY <1>2, <1>3, <1>4 DEF AllInv, HInv

\* Every reachable state satisfies it.
THEOREM HistoryInvariance == HSpec => []AllInv
BY InitAll, StepAll, PTL DEF HSpec

-----------------------------------------------------------------------------
\* What a finished scan has listed.
LEMMA CoversWhole ==
  ASSUME NEW S, NEW s \in Seq(S), NEW o \in Seq(S), NEW D,
         IsInjective(s), Covers(o, s, Len(s), D)
  PROVE  /\ IsInjective(o)
         /\ Range(o) \subseteq Range(s)
         /\ D \cap Range(s) \subseteq Range(o)
         /\ \E f \in [DOMAIN o -> DOMAIN s] :
              /\ \A i \in DOMAIN o : o[i] = s[f[i]]
              /\ \A i, j \in DOMAIN o : i < j => f[i] < f[j]
<1>1. PICK f \in [DOMAIN o -> 1..Len(s)] : Follows(f, o, s)
  BY DEF Covers
<1>2. DOMAIN s = 1..Len(s) /\ DOMAIN o \subseteq Nat
  OBVIOUS
<1>3. IsInjective(o)
  <2> SUFFICES ASSUME NEW i \in DOMAIN o, NEW j \in DOMAIN o, o[i] = o[j] PROVE i = j
    BY DEF IsInjective
  <2>1. f[i] \in DOMAIN s /\ f[j] \in DOMAIN s /\ s[f[i]] = s[f[j]]
    BY <1>1, <1>2 DEF Follows
  <2>2. f[i] = f[j] /\ f[i] \in Nat
    BY <1>2, <2>1 DEF IsInjective
  <2>3. i \in Nat /\ j \in Nat
    BY <1>2
  <2>4. ~(i < j) /\ ~(j < i)
    BY <1>1, <2>2 DEF Follows
  <2> QED  BY <2>3, <2>4
<1>4. Range(o) \subseteq Range(s)
  BY <1>1, <1>2 DEF Follows, Range
<1>5. D \cap Range(s) \subseteq Range(o)
  BY <1>2 DEF Covers, Range
<1>6. f \in [DOMAIN o -> DOMAIN s]
  BY <1>2
<1> QED  BY <1>1, <1>3, <1>4, <1>5, <1>6 DEF Follows

\* A scan that is done has covered the whole of its vector, and its vector
\* lists no user twice.
LEMMA DoneCovers ==
  ASSUME AllInv, NEW t \in Jobbers, Done(t)
  PROVE  /\ Covers(out[t], list[arg[t]], Len(list[arg[t]]), Due(t))
         /\ IsInjective(list[arg[t]])
         /\ list[arg[t]] \in Seq(Ids) /\ out[t] \in Seq(Ids)
<1>1. /\ TypeOK /\ HandsOK /\ StoreConserved /\ ListsOnce /\ Scanned(t)
  BY DEF AllInv, IInv, Conserved, HInv
<1>2. /\ list[arg[t]] \in Seq(Ids) /\ out[t] \in Seq(Ids) /\ pos[t] \in Nat \ {0}
      /\ arg[t] \in Vectors /\ arg[t] # NewUsers
  BY <1>1, Names DEF TypeOK
<1>3. pc[t] = "scan" /\ pos[t] > Len(list[arg[t]])
  BY DEF Done
<1>4. Covers(out[t], list[arg[t]], pos[t] - 1, Due(t))
  BY <1>1, <1>3 DEF Scanned, ScanPCs, Passed
<1>5. pos[t] - 1 <= Len(list[arg[t]])
  BY <1>4 DEF Covers
<1>6. pos[t] - 1 = Len(list[arg[t]])
  BY <1>2, <1>3, <1>5
<1>7. IsInjective(list[arg[t]])
  BY <1>1, <1>2, PresentListed DEF ListsOnce
<1> QED  BY <1>2, <1>4, <1>6, <1>7

\* A scan handles every user of its vector that nobody deletes meanwhile, once,
\* in the order of the vector (VectorUsers::top, count, clear, cleanup).
THEOREM ScansCoverTheirVector == HSpec => []ScanCoversVector
<1>1. AllInv => ScanCoversVector
  <2> SUFFICES ASSUME AllInv, NEW t \in Jobbers, job[t] \in Scans, Done(t)
               PROVE  /\ IsInjective(out[t])
                      /\ always[t] \cap Range(list[arg[t]]) \subseteq Range(out[t])
                      /\ \E f \in [DOMAIN out[t] -> DOMAIN list[arg[t]]] :
                           /\ \A i \in DOMAIN out[t] : out[t][i] = list[arg[t]][f[i]]
                           /\ \A i, j \in DOMAIN out[t] : i < j => f[i] < f[j]
    BY DEF ScanCoversVector
  <2> DEFINE s == list[arg[t]]
             o == out[t]
  <2>1. /\ Covers(o, s, Len(s), Due(t)) /\ IsInjective(s) /\ s \in Seq(Ids) /\ o \in Seq(Ids)
    BY DoneCovers
  <2>2. Due(t) = always[t]
    BY DEF Due, Scans
  <2> HIDE DEF s, o
  <2>3. /\ IsInjective(o) /\ Due(t) \cap Range(s) \subseteq Range(o)
        /\ \E f \in [DOMAIN o -> DOMAIN s] :
              /\ \A i \in DOMAIN o : o[i] = s[f[i]]
              /\ \A i, j \in DOMAIN o : i < j => f[i] < f[j]
    BY <2>1, CoversWhole
  <2> QED  BY <2>2, <2>3 DEF s, o
<1> QED  BY <1>1, HistoryInvariance, PTL

\* A count, a top or a report of all the users misses parked users only
\* (users.cc:53-69).
THEOREM CountsMissOnlyParked == HSpec => []CountMissesOnlyParked
<1>1. AllInv => CountMissesOnlyParked
  <2> SUFFICES ASSUME AllInv, NEW t \in Jobbers, job[t] = "visit", arg[t] = Vector, Done(t)
               PROVE  always[t] \subseteq Range(out[t]) \cup Range(list[NewUsers])
    BY DEF CountMissesOnlyParked
  <2>1. /\ Covers(out[t], list[Vector], Len(list[Vector]), Due(t)) /\ IsInjective(list[Vector])
        /\ list[Vector] \in Seq(Ids) /\ out[t] \in Seq(Ids)
    BY DoneCovers
  <2>2. Due(t) = always[t]
    BY DEF Due
  <2>3. always[t] \cap Range(list[Vector]) \subseteq Range(out[t])
    BY <2>1, <2>2, CoversWhole
  <2>4. always[t] \subseteq Present
    BY DEF AllInv, HInv, Remembers, Done
  <2>5. Present \subseteq Range(list[Vector]) \cup Range(list[NewUsers])
    BY PresentListed DEF AllInv, IInv, Conserved
  <2> QED  BY <2>3, <2>4, <2>5
<1> QED  BY <1>1, HistoryInvariance, PTL

\* Only a dump undeletes without a command, and only users that were there
\* since it began (users.cc:268).
THEOREM DumpsReviveTheirOwn == HSpec => DumpRevivesItsOwn
<1> DEFINE Revival == \A u \in Ids : deleted[u] /\ ~deleted'[u] /\ pc[Main] = pc'[Main]
                        => \E t \in Jobbers : Dumping(t) /\ u \in ever[t]
<1>1. ASSUME AllInv, [HNext]_hvars PROVE [Revival]_hvars
  <2> SUFFICES ASSUME HNext, NEW u \in Ids, deleted[u], ~deleted'[u], pc[Main] = pc'[Main]
               PROVE  \E t \in Jobbers : Dumping(t) /\ u \in ever[t]
    BY <1>1
  <2>0. /\ TypeOK /\ HandsOK /\ DOMAIN pc = Threads /\ Main \in Threads
        /\ deleted \in [Ids -> BOOLEAN]
        /\ \A t \in Jobbers : JobShape(t) /\ Scanned(t) /\ Copied(t)
    BY <1>1, Names DEF AllInv, IInv, HInv, TypeOK
  <2>1. (\E t \in Threads : UndelFlag(t)) \/ ClearInit \/ (\E t \in Threads : DelFlag(t))
    <3>1. deleted' # deleted
      OBVIOUS
    <3>2. Next
      BY DEF HNext
    <3> USE DEF users
    <3>3. ASSUME NEW x \in Ids, NEW c \in Commands,
                 UserFind(x, c) \/ UserCreate(x, c) \/ UserRevive(x, c)
          PROVE  FALSE
      BY <3>1, <3>3 DEF UserFind, UserCreate, UserRevive
    <3>4. ASSUME NEW w \in Workers, NEW j \in Jobs, Start(w, j) PROVE FALSE
      BY <3>1, <3>4 DEF Start, Begin
    <3>5. ASSUME AutoStart \/ AddTrylock \/ AddPush \/ AddParkLock \/ AddPark PROVE FALSE
      BY <3>1, <3>5 DEF AutoStart, Begin, AddTrylock, AddPush, AddParkLock, AddPark
    <3>6. ASSUME NEW t \in Threads,
                 \/ UpdateLock(t) \/ UpdateMove(t) \/ UpdateForget(t)
                 \/ LockUser(t) \/ Touch(t) \/ UnlockUser(t) \/ DelFields(t) \/ UndelFields(t)
          PROVE  FALSE
      BY <3>1, <3>6 DEF UpdateLock, UpdateMove, UpdateForget, LockUser, Touch, UnlockUser,
                        DelFields, UndelFields
    <3>7. ASSUME NEW t \in Jobbers, JobStep(t) PROVE FALSE
      BY <3>1, <3>7 DEF JobStep, LockVector, UnlockVector, SelectLock, SelectTarget, SelectNext,
                        SelectFilter, SelectFilled, SelectUnlock, Lock, Wipe, ScanNext, DumpCheck,
                        Finish
    <3> QED  BY <3>2, <3>3, <3>4, <3>5, <3>6, <3>7 DEF Next, Request, MainStep, Update, OnUser
  <2>2. ~ClearInit
    BY <2>0 DEF ClearInit, Goto
  <2>3. ~\E t \in Threads : DelFlag(t)
    BY <2>0 DEF DelFlag
  <2>4. PICK t \in Threads : UndelFlag(t)
    BY <2>1, <2>2, <2>3
  <2>5. pc[t] = "revive" /\ u = cur[t] /\ t # Main
    BY <2>0, <2>4 DEF UndelFlag, Goto
  <2>6. t \in Jobbers /\ Dumping(t) /\ arg[t] = t
    BY <2>0, <2>5 DEF Threads, JobShape, Dumping
  <2>7. u \in Range(list[t]) /\ Range(list[t]) \subseteq ever[t]
    <3>1. pos[t] <= Len(list[t]) /\ u = list[t][pos[t]] /\ Range(list[t]) \subseteq ever[t]
      BY <2>0, <2>5, <2>6 DEF Scanned, Copied, Dumping, ScanPCs
    <3>2. list[t] \in Seq(Ids) /\ pos[t] \in Nat \ {0}
      BY <2>0, <2>6, Names DEF TypeOK
    <3>3. pos[t] \in DOMAIN list[t]
      BY <3>1, <3>2
    <3> QED  BY <3>1, <3>3 DEF Range
  <2> QED  BY <2>6, <2>7
<1>2. HSpec => [][Revival]_hvars
  BY <1>1, HistoryInvariance, PTL DEF HSpec
<1> QED  BY <1>2 DEF DumpRevivesItsOwn

-----------------------------------------------------------------------------
\* Where a job is in the eyes of Roster.
PhaseOf(t) == IF ~Dumping(t) THEN "idle" ELSE IF Done(t) THEN "reported" ELSE "running"

\* The users there are, and the part of the code they depend on.
Calm == hash' = hash /\ deleted' = deleted /\ pc'[Main] = pc[Main] /\ cur'[Main] = cur[Main]

\* A step of job t leaves its phase alone, or it begins, reports or ends, and
\* then no user comes or goes.
Turns(t) ==
  \/ PhaseOf(t)' = PhaseOf(t) /\ (PhaseOf(t) = "reported" => out'[t] = out[t])
  \/ /\ PhaseOf(t) = "idle" /\ PhaseOf(t)' = "running"
     /\ pc[t] = "free" /\ Calm
  \/ PhaseOf(t) = "running" /\ PhaseOf(t)' = "reported" /\ Calm
  \/ PhaseOf(t) = "reported" /\ PhaseOf(t)' = "idle" /\ Calm

\* A step of another thread leaves the phase and the report of a job alone.
LEMMA ApartPhase ==
  ASSUME TypeOK, HandsOK, NEW t \in Jobbers, Apart(t)
  PROVE  PhaseOf(t)' = PhaseOf(t) /\ out'[t] = out[t]
<1>1. pc[t] = "scan" => list'[arg[t]] = list[arg[t]]
  BY ScanHolds DEF Apart, ScanPCs
<1>2. Done(t)' <=> Done(t)
  BY <1>1 DEF Apart, Done
<1> QED  BY <1>2 DEF Apart, PhaseOf, Dumping

\* Every step of a job turns it from one phase to the next, or leaves it there.
LEMMA OwnPhase ==
  ASSUME TypeOK, HandsOK, NEW t \in Jobbers, JobShape(t), Own(t)
  PROVE  Turns(t)
<1>0. /\ t \in Threads /\ t # Main /\ Main \in Threads
      /\ DOMAIN pc = Threads /\ DOMAIN cur = Threads /\ DOMAIN job = Threads
      /\ DOMAIN pos = Jobbers /\ DOMAIN arg = Jobbers /\ DOMAIN out = Jobbers
      /\ pos[t] \in Nat \ {0} /\ list \in [Vectors -> Seq(Ids)] /\ arg[t] \in Vectors
      /\ AutoDump \in Jobbers /\ Workers \subseteq Jobbers
  BY Names DEF TypeOK
<1> USE <1>0 DEF Goto, users, store, progress
\* A step that reaches no end of a scan and is none.
<1>q. ASSUME ~Done(t), job'[t] = job[t] \/ (job[t] # "dump" /\ job'[t] # "dump"), pc'[t] # "scan"
      PROVE  Turns(t)
  BY <1>q DEF Turns, PhaseOf, Dumping, Done
\* A step that may reach the end of one.
<1>r. ASSUME ~Done(t), job'[t] = job[t], Calm
      PROVE  Turns(t)
  BY <1>r DEF Turns, PhaseOf, Dumping
<1>1. ASSUME NEW v, NEW j, Begin(t, j, v) PROVE Turns(t)
  <2>1. pc[t] = "free" /\ pc'[t] \in {"lock", "lock_vector"} /\ job'[t] = j /\ job[t] = "none" /\ Calm
    BY <1>1 DEF Begin, JobShape, Calm
  <2> QED  BY <2>1 DEF Turns, PhaseOf, Dumping, Done
<1>2. CASE t \in Workers /\ \E j \in Jobs : Start(t, j)
  BY <1>1, <1>2 DEF Start
<1>3. CASE t = AutoDump /\ AutoStart
  BY <1>1, <1>3 DEF AutoStart
<1>4. CASE Update(t)
  <2>1. ~Done(t) /\ job'[t] = job[t] /\ pc'[t] # "scan"
    BY <1>4 DEF Update, UpdateLock, UpdateMove, UpdateForget, Done
  <2> QED  BY <1>q, <2>1
<1>5. CASE LockUser(t) \/ Touch(t) \/ DelFields(t) \/ DelFlag(t) \/ UndelFields(t) \/ UndelFlag(t)
  <2>1. ~Done(t) /\ job'[t] = job[t] /\ pc'[t] # "scan"
    BY <1>5 DEF LockUser, Touch, DelFields, DelFlag, UndelFields, UndelFlag, Done
  <2> QED  BY <1>q, <2>1
<1>6. CASE UnlockUser(t) \/ Lock(t) \/ Wipe(t)
  <2>1. CASE UnlockUser(t) \/ Lock(t)
    <3>1. ~Done(t) /\ job'[t] = job[t] /\ Calm
      BY <2>1 DEF UnlockUser, Lock, Done, Calm
    <3> QED  BY <1>r, <3>1
  <2>2. CASE Wipe(t)
    <3>1. ~Done(t) /\ job'[t] = job[t] /\ Calm
      BY <2>2 DEF Wipe, Done, Calm
    <3> QED  BY <1>r, <3>1
  <2> QED  BY <1>6, <2>1, <2>2
<1>7. CASE LockVector(t) \/ SelectLock(t) \/ SelectTarget(t) \/ SelectNext(t) \/ SelectFilter(t)
           \/ SelectFilled(t) \/ DumpCheck(t)
  <2>1. ~Done(t) /\ job'[t] = job[t] /\ pc'[t] # "scan"
    BY <1>7 DEF LockVector, SelectLock, SelectTarget, SelectNext, SelectFilter, SelectFilled,
                DumpCheck, Done
  <2> QED  BY <1>q, <2>1
<1>8. CASE UnlockVector(t) \/ SelectUnlock(t)
  <2>1. ~Done(t) /\ pc'[t] # "scan" /\ (job'[t] = job[t] \/ (job[t] # "dump" /\ job'[t] # "dump"))
    BY <1>8 DEF UnlockVector, SelectUnlock, Done
  <2> QED  BY <1>q, <2>1
<1>9. CASE ScanNext(t)
  <2>1. ~Done(t)
    <3>1. pos[t] <= Len(list[arg[t]]) /\ Len(list[arg[t]]) \in Nat
      BY <1>9 DEF ScanNext
    <3> QED  BY <3>1 DEF Done
  <2>2. job'[t] = job[t] /\ Calm
    BY <1>9 DEF ScanNext, Calm
  <2> QED  BY <1>r, <2>1, <2>2
<1>10. CASE Finish(t)
  <2>1. Done(t) /\ job'[t] = "none" /\ Calm
    BY <1>10 DEF Finish, Calm
  <2> QED  BY <2>1 DEF Turns, PhaseOf, Dumping
<1> QED
  BY <1>2, <1>3, <1>4, <1>5, <1>6, <1>7, <1>8, <1>9, <1>10 DEF Own, OnUser, JobStep

\* What Roster remembers of a job follows the history variables of its dump.
LEMMA RosterHistory ==
  ASSUME NEW t \in Jobbers, HNext, JobShape(t), JobShape(t)', Remembers(t)
  PROVE  /\ Dumping(t) /\ Dumping(t)' =>
              always'[t] = always[t] \cap Present' /\ ever'[t] = ever[t] \cup Present'
         /\ pc[t] = "free" /\ Dumping(t)' => always'[t] = Present' /\ ever'[t] = Present'
         /\ Dumping(t) => always[t] \subseteq Present /\ Present \subseteq ever[t]
BY DEF HNext, JobShape, Remembers, Dumping

\* What Roster asks of a dump that has written its users.
PromiseKept ==
  \A t \in Jobbers : Dumping(t) /\ Done(t) =>
    /\ IsInjective(out[t])
    /\ always[t] \subseteq Range(out[t])
    /\ Range(out[t]) \subseteq ever[t]

\* A dump keeps the promise of Roster when it reports.
LEMMA ReportKeepsPromise == AllInv => PromiseKept
<1> SUFFICES ASSUME AllInv, NEW t \in Jobbers, Dumping(t), Done(t)
             PROVE  /\ IsInjective(out[t])
                    /\ always[t] \subseteq Range(out[t])
                    /\ Range(out[t]) \subseteq ever[t]
  BY DEF PromiseKept
<1>1. arg[t] = t /\ always[t] \subseteq Range(list[t]) /\ Range(list[t]) \subseteq ever[t]
  BY DEF AllInv, HInv, JobShape, Copied, Dumping, Done, ScanPCs
<1>2. /\ Covers(out[t], list[t], Len(list[t]), Due(t)) /\ IsInjective(list[t])
      /\ list[t] \in Seq(Ids) /\ out[t] \in Seq(Ids)
  BY <1>1, DoneCovers
<1>3. /\ IsInjective(out[t]) /\ Range(out[t]) \subseteq Range(list[t])
      /\ Due(t) \cap Range(list[t]) \subseteq Range(out[t])
  BY <1>2, CoversWhole
<1>4. Due(t) = Ids /\ Range(list[t]) \subseteq Ids
  BY <1>2, RangeOfSeq DEF Due, Dumping
<1> QED  BY <1>1, <1>3, <1>4

\* The store begins as Roster does.
LEMMA RosterInit == HInit => DumpRoster!Init
<1> SUFFICES ASSUME HInit PROVE DumpRoster!Init
  OBVIOUS
<1>1. \A t \in Jobbers : ~Dumping(t)
  BY ThreadsAssumption DEF HInit, Init, Threads, Dumping
<1>2. Present \in SUBSET Ids
  BY InitTypes DEF HInit, TypeOK, Present
<1> QED  BY <1>1, <1>2 DEF DumpRoster!Init

\* Every step of the store is a step of Roster or leaves it alone.
LEMMA RosterStep ==
  ASSUME AllInv, AllInv', HNext
  PROVE  DumpRoster!Next
<1>0. /\ TypeOK /\ HandsOK /\ VectorLocksHeld
      /\ \A t \in Jobbers : JobShape(t) /\ JobShape(t)' /\ Remembers(t)
  BY DEF AllInv, IInv, HInv, LocksHeld
<1>1. PICK x \in Threads : /\ \A t \in Jobbers \ {x} : Apart(t)
                           /\ x \in Jobbers => Own(x) \/ Apart(x)
  BY <1>0, OneActor DEF HNext
<1>2. \A t \in Jobbers \ {x} : PhaseOf(t)' = PhaseOf(t) /\ out'[t] = out[t]
  BY <1>0, <1>1, ApartPhase
<1>3. x \in Jobbers => Turns(x)
  <2>1. ASSUME x \in Jobbers, Apart(x) PROVE Turns(x)
    BY <1>0, <2>1, ApartPhase DEF Turns
  <2> QED  BY <1>0, <1>1, <2>1, OwnPhase
<1>4. \A t \in Jobbers :
         /\ Dumping(t) /\ Dumping(t)' =>
              always'[t] = always[t] \cap Present' /\ ever'[t] = ever[t] \cup Present'
         /\ pc[t] = "free" /\ Dumping(t)' => always'[t] = Present' /\ ever'[t] = Present'
         /\ Dumping(t) => always[t] \subseteq Present /\ Present \subseteq ever[t]
  BY <1>0, RosterHistory
<1>5. \A t \in Jobbers : /\ Dumping(t) <=> PhaseOf(t) # "idle"
                         /\ Dumping(t)' <=> PhaseOf(t)' # "idle"
                         /\ Dumping(t) /\ Done(t) <=> PhaseOf(t) = "reported"
                         /\ Dumping(t)' /\ Done(t)' <=> PhaseOf(t)' = "reported"
  BY DEF PhaseOf
<1>6. Present' \in SUBSET Ids
  BY DEF AllInv, IInv, TypeOK, Present
<1>7. Calm => Present' = Present
  BY DEF Calm, Present, InFlight
<1> DEFINE phase == [t \in Jobbers |-> IF ~Dumping(t) THEN "idle"
                                ELSE IF Done(t) THEN "reported" ELSE "running"]
           al == [t \in Jobbers |-> IF Dumping(t) THEN always[t] ELSE {}]
           ev == [t \in Jobbers |-> IF Dumping(t) THEN ever[t] ELSE {}]
           rep == [t \in Jobbers |-> IF Dumping(t) /\ Done(t) THEN out[t] ELSE <<>>]
<1>8. CASE \A t \in Jobbers : PhaseOf(t)' = PhaseOf(t) /\ (PhaseOf(t) = "reported" => out'[t] = out[t])
  <2>1. phase' = phase
    BY <1>8 DEF PhaseOf
  <2>2. al' = [t \in Jobbers |-> al[t] \cap Present']
    BY <1>4, <1>5, <1>8
  <2>3. ev' = [t \in Jobbers |-> IF phase[t] = "idle" THEN ev[t] ELSE ev[t] \cup Present']
    BY <1>4, <1>5, <1>8
  <2>4. rep' = rep
    BY <1>5, <1>8
  <2>6. PICK P \in SUBSET Ids : P = Present'
    BY <1>6
  <2>7. DumpRoster!Change(P)
    BY <2>1, <2>2, <2>3, <2>4, <2>6 DEF DumpRoster!Change
  <2> QED  BY <2>7 DEF DumpRoster!Next
<1>9. CASE ~\A t \in Jobbers : PhaseOf(t)' = PhaseOf(t) /\ (PhaseOf(t) = "reported" => out'[t] = out[t])
  <2>1. /\ x \in Jobbers /\ Calm
        /\ \/ PhaseOf(x) = "idle" /\ PhaseOf(x)' = "running" /\ pc[x] = "free"
           \/ PhaseOf(x) = "running" /\ PhaseOf(x)' = "reported"
           \/ PhaseOf(x) = "reported" /\ PhaseOf(x)' = "idle"
    BY <1>2, <1>3, <1>9 DEF Turns
  <2>2. Present' = Present
    BY <1>7, <2>1
  <2>3. \A t \in Jobbers \ {x} : phase'[t] = phase[t] /\ al'[t] = al[t] /\ ev'[t] = ev[t] /\ rep'[t] = rep[t]
    <3> SUFFICES ASSUME NEW t \in Jobbers \ {x}
                 PROVE  phase'[t] = phase[t] /\ al'[t] = al[t] /\ ev'[t] = ev[t] /\ rep'[t] = rep[t]
      OBVIOUS
    <3>1. /\ Dumping(t)' <=> Dumping(t)
          /\ (Dumping(t) /\ Done(t))' <=> (Dumping(t) /\ Done(t))
          /\ out'[t] = out[t]
      BY <1>2, <1>5
    <3>2. Dumping(t) => always'[t] = always[t] /\ ever'[t] = ever[t]
      BY <1>4, <2>2, <3>1
    <3> QED  BY <3>1, <3>2
  <2>4. CASE PhaseOf(x) = "idle" /\ PhaseOf(x)' = "running" /\ pc[x] = "free"
    <3>1. /\ phase[x] = "idle" /\ phase'[x] = "running"
          /\ al'[x] = Present /\ ev'[x] = Present /\ rep'[x] = rep[x]
      BY <1>4, <1>5, <2>1, <2>2, <2>4 DEF PhaseOf
    <3>2. /\ phase' = [phase EXCEPT ![x] = "running"]
          /\ al' = [al EXCEPT ![x] = Present]
          /\ ev' = [ev EXCEPT ![x] = Present]
          /\ rep' = rep
      BY <2>3, <3>1
    <3>3. DumpRoster!Begin(x)
      BY <2>2, <3>1, <3>2 DEF DumpRoster!Begin
    <3> QED  BY <2>1, <3>3 DEF DumpRoster!Next
  <2>5. CASE PhaseOf(x) = "running" /\ PhaseOf(x)' = "reported"
    <3>a. Dumping(x) /\ Dumping(x)' /\ ~Done(x) /\ Done(x)'
      BY <1>5, <2>1, <2>5 DEF PhaseOf
    <3>b. always'[x] = always[x] /\ ever'[x] = ever[x]
      BY <1>4, <2>1, <2>2, <3>a
    <3>1. /\ phase[x] = "running" /\ phase'[x] = "reported"
          /\ al'[x] = al[x] /\ ev'[x] = ev[x] /\ rep'[x] = out'[x]
          /\ al[x] = always[x] /\ ev[x] = ever[x]
      BY <2>1, <3>a, <3>b
    <3>2. /\ IsInjective(out'[x]) /\ always'[x] \subseteq Range(out'[x]) /\ Range(out'[x]) \subseteq ever'[x]
      <4>1. PromiseKept'
        BY ReportKeepsPromise, PTL
      <4>2. Dumping(x)' /\ Done(x)'
        BY <1>5, <2>1, <2>5
      <4> QED  BY <2>1, <4>1, <4>2 DEF PromiseKept
    <3>3. /\ phase' = [phase EXCEPT ![x] = "reported"]
          /\ al' = al /\ ev' = ev
          /\ rep' = [rep EXCEPT ![x] = rep'[x]]
      BY <2>3, <3>1, ZenonT(30)
    <3>4. DumpRoster!Report(x)
      <4>1. /\ DumpRoster!IsInjective(rep'[x])
            /\ al[x] \subseteq DumpRoster!Range(rep'[x])
            /\ DumpRoster!Range(rep'[x]) \subseteq ev[x]
        <5> HIDE DEF al, ev, rep
        <5> QED  BY <3>1, <3>2, <3>b
               DEF DumpRoster!IsInjective, DumpRoster!Range, IsInjective, Range
      <4> QED  BY <2>2, <3>1, <3>3, <4>1 DEF DumpRoster!Report
    <3> QED  BY <2>1, <3>4 DEF DumpRoster!Next
  <2>6. CASE PhaseOf(x) = "reported" /\ PhaseOf(x)' = "idle"
    <3>1. /\ phase[x] = "reported" /\ phase'[x] = "idle"
          /\ al'[x] = {} /\ ev'[x] = {} /\ rep'[x] = <<>>
      BY <1>5, <2>1, <2>6 DEF PhaseOf
    <3>2. /\ phase' = [phase EXCEPT ![x] = "idle"]
          /\ al' = [al EXCEPT ![x] = {}]
          /\ ev' = [ev EXCEPT ![x] = {}]
          /\ rep' = [rep EXCEPT ![x] = <<>>]
      BY <2>3, <3>1
    <3>3. DumpRoster!End(x)
      BY <2>2, <3>1, <3>2 DEF DumpRoster!End
    <3> QED  BY <2>1, <3>3 DEF DumpRoster!Next
  <2> QED  BY <2>1, <2>4, <2>5, <2>6
<1> QED  BY <1>8, <1>9

\* Users::dump and Users::dump_bin implement the listing job of Roster: a dump
\* names no user twice, names every user that was there from its start to its
\* end, and only users that were there in between.
THEOREM DumpsKeepTheirPromise == HSpec => DumpKeepsPromise
<1>1. ASSUME UNCHANGED hvars PROVE UNCHANGED DumpRoster!vars
  BY <1>1 DEF hvars, vars, DumpRoster!vars, Present, InFlight, Dumping, Done
<1>2. AllInv /\ AllInv' /\ [HNext]_hvars => [DumpRoster!Next]_(DumpRoster!vars)
  BY <1>1, RosterStep
<1> QED  BY <1>2, RosterInit, HistoryInvariance, PTL DEF HSpec, DumpKeepsPromise, DumpRoster!Spec

=============================================================================
