-------------------------- MODULE UsersStoreProofs --------------------------
(***************************************************************************)
(* What UsersStore keeps for any number of users, mutexes, sets and jobs.  *)
(* The lemmas come in four groups: lists, types, mutexes, and the users    *)
(* that vector and vector_new_users hold; then one inductive invariant     *)
(* puts them together.  The last section is about the fields of a user.    *)
(***************************************************************************)
EXTENDS UsersStore, SequenceTheorems, TLAPS

\* Appending to a list adds one element to its range.
LEMMA AppendRange ==
  ASSUME NEW S, NEW s \in Seq(S), NEW x \in S
  PROVE  /\ Append(s, x) \in Seq(S)
         /\ Range(Append(s, x)) = Range(s) \cup {x}
<1>1. Append(s, x) = s \o <<x>> /\ Append(s, x) \in Seq(S) /\ <<x>> \in Seq(S)
  BY AppendIsConcat
<1>2. Range(<<x>>) = {x}
  BY DEF Range
<1>3. Range(s \o <<x>>) = Range(s) \cup Range(<<x>>)
  BY <1>1, RangeConcatenation
<1> QED  BY <1>1, <1>2, <1>3

\* A list that holds no element twice still does not when a new one comes.
LEMMA AppendInjection ==
  ASSUME NEW S, NEW s \in Seq(S), NEW x \in S, IsInjective(s), x \notin Range(s)
  PROVE  IsInjective(Append(s, x))
BY DEF Range, IsInjective

\* Putting one list after another puts their elements together.
LEMMA ConcatRange ==
  ASSUME NEW S, NEW s \in Seq(S), NEW r \in Seq(S)
  PROVE  /\ s \o r \in Seq(S)
         /\ Range(s \o r) = Range(s) \cup Range(r)
BY RangeConcatenation

\* Users::restore leaves every variable in its type, and no thread with anything
\* in hand.
LEMMA InitTypes == Init => TypeOK /\ HandsOK
<1> SUFFICES ASSUME Init PROVE TypeOK /\ HandsOK
  OBVIOUS
<1> USE DEF Init, Threads, Jobbers, Vectors
<1>1. TypeOK
  <2>1. hash \in SUBSET Ids
    BY LoadAssumption, RangeOfSeq
  <2>2. list \in [Vectors -> Seq(Ids)]
    BY LoadAssumption
  <2>3. pc \in [Threads -> MainPCs \cup JobPCs \cup SharedPCs]
    BY DEF MainPCs, JobPCs, SharedPCs
  <2>4. /\ pc[Main] \in MainPCs \cup SharedPCs
        /\ \A t \in Jobbers : pc[t] \in JobPCs \cup SharedPCs
    BY ThreadsAssumption DEF MainPCs, JobPCs, SharedPCs
  <2>5. fields \in [Ids -> {"none", "alloc", "freed"}]
    OBVIOUS
  <2>6. /\ job \in [Threads -> AllCommands \cup AllJobs \cup {"none"}]
        /\ job[Main] \in AllCommands \cup {"none"}
        /\ \A t \in Jobbers : job[t] \in AllJobs \cup {"none"}
    OBVIOUS
  <2>7. /\ arg \in [Jobbers -> Vectors]
        /\ \A t \in Jobbers : arg[t] \in {Vector, t} \cup Sets
        /\ pos \in [Jobbers -> Nat \ {0}]
        /\ out \in [Jobbers -> Seq(Ids)]
    OBVIOUS
  <2> QED  BY <2>1, <2>2, <2>3, <2>4, <2>5, <2>6, <2>7 DEF TypeOK
<1>2. HandsOK
  <2>1. \A v \in Vectors : Range(list[v]) \subseteq hash
    BY DEF Range
  <2> QED  BY <2>1, ThreadsAssumption DEF HandsOK
<1> QED  BY <1>1, <1>2

\* Writing one list: the typing of list and the users it may hold.
LEMMA ListUpdate ==
  ASSUME TypeOK, HandsOK, NEW v \in Vectors, NEW s \in Seq(Ids), NEW H,
         hash \subseteq H, Range(s) \subseteq H
  PROVE  /\ [list EXCEPT ![v] = s] \in [Vectors -> Seq(Ids)]
         /\ \A w \in Vectors : Range([list EXCEPT ![v] = s][w]) \subseteq H
BY DEF TypeOK, HandsOK

\* What a scan or a select finds at its iterator is a user of the store.
LEMMA AtIterator ==
  ASSUME TypeOK, HandsOK, NEW v \in Vectors, NEW i \in Nat \ {0}, i <= Len(list[v])
  PROVE  list[v][i] \in hash /\ list[v][i] \in Ids
<1>1. list[v] \in Seq(Ids) /\ i \in DOMAIN list[v]
  BY DEF TypeOK
<1> QED  BY <1>1 DEF TypeOK, HandsOK, Range

\* An empty list holds nobody.
LEMMA EmptyRange == Range(<<>>) = {} /\ <<>> \in Seq(Ids)
BY DEF Range

\* Every step keeps the types, and keeps what the threads have in hand in the
\* store.
LEMMA StepTypes ==
  ASSUME TypeOK, HandsOK, [Next]_vars
  PROVE  TypeOK' /\ HandsOK'
<1> USE ThreadsAssumption, VectorsAssumption, LoadAssumption
    DEF TypeOK, HandsOK, Goto, Acquire, Release, store, users, locks, progress,
        MainPCs, JobPCs, SharedPCs, AllCommands, AllJobs, Scans, Threads, Jobbers, Vectors
<1>1. ASSUME NEW u \in Ids, NEW c \in Commands, UserFind(u, c) PROVE TypeOK' /\ HandsOK'
  BY <1>1 DEF UserFind
<1>2. ASSUME NEW u \in Ids, NEW c \in Commands, UserCreate(u, c) PROVE TypeOK' /\ HandsOK'
  BY <1>2 DEF UserCreate
<1>3. ASSUME NEW u \in Ids, NEW c \in Commands, UserRevive(u, c) PROVE TypeOK' /\ HandsOK'
  BY <1>3 DEF UserRevive
<1>4. ASSUME NEW w \in Workers, NEW j \in Jobs, Start(w, j) PROVE TypeOK' /\ HandsOK'
  <2>1. PICK v \in {Vector, w} \cup Sets :
          /\ Begin(w, j, v)
          /\ j \in {"select", "dump", "sets_clear"} => v \in Sets \cup {w}
    BY <1>4 DEF Start
  <2>2. /\ list' \in [Vectors -> Seq(Ids)]
        /\ \A x \in Vectors : Range(list'[x]) \subseteq hash'
    <3>1. CASE UNCHANGED list
      BY <3>1, <2>1 DEF Begin
    <3>2. CASE \E u \in hash : list' = [list EXCEPT ![w] = <<u>>]
      <4>1. PICK u \in hash : list' = [list EXCEPT ![w] = <<u>>]
        BY <3>2
      <4>2. <<u>> \in Seq(Ids) /\ Range(<<u>>) \subseteq hash
        BY DEF Range
      <4> QED  BY <4>1, <4>2, <2>1, ListUpdate DEF Begin
    <3> QED  BY <1>4, <3>1, <3>2 DEF Start
  <2>3. TypeOK'
    BY <2>1, <2>2 DEF Begin
  <2>4. HandsOK'
    BY <2>1, <2>2 DEF Begin
  <2> QED  BY <2>3, <2>4
<1>5. ASSUME AutoStart PROVE TypeOK' /\ HandsOK'
  BY <1>5 DEF AutoStart, Begin
<1>6. ASSUME AddTrylock PROVE TypeOK' /\ HandsOK'
  <2>1. TypeOK'
    <3>1. CASE Acquire(Vector, Main) /\ Goto(Main, "trylock", "update")
      BY <1>6, <3>1 DEF AddTrylock
    <3>2. CASE Goto(Main, "trylock", "lock_new") /\ UNCHANGED owner
      BY <1>6, <3>2 DEF AddTrylock
    <3> QED  BY <1>6, <3>1, <3>2 DEF AddTrylock
  <2>2. HandsOK'
    BY <1>6 DEF AddTrylock
  <2> QED  BY <2>1, <2>2
<1>7. ASSUME AddPush PROVE TypeOK' /\ HandsOK'
  <2>1. cur[Main] \in hash /\ Vector \in Vectors
    BY <1>7 DEF AddPush
  <2> DEFINE s == Append(list[Vector], cur[Main])
  <2>2. s \in Seq(Ids) /\ Range(s) \subseteq hash
    BY <2>1, AppendRange
  <2> HIDE DEF s
  <2>3. /\ [list EXCEPT ![Vector] = s] \in [Vectors -> Seq(Ids)]
        /\ \A w \in Vectors : Range([list EXCEPT ![Vector] = s][w]) \subseteq hash
    BY <2>1, <2>2, ListUpdate
  <2>4. list' = [list EXCEPT ![Vector] = s] /\ hash' = hash
    BY <1>7 DEF AddPush, s
  <2>5. /\ list' \in [Vectors -> Seq(Ids)]
        /\ \A w \in Vectors : Range(list'[w]) \subseteq hash'
    BY <2>3, <2>4
  <2>6. TypeOK'
    BY <1>7, <2>5 DEF AddPush
  <2>7. HandsOK'
    BY <1>7, <2>5 DEF AddPush
  <2> QED  BY <2>6, <2>7
<1>8. ASSUME AddParkLock PROVE TypeOK' /\ HandsOK'
  BY <1>8 DEF AddParkLock
<1>9. ASSUME AddPark PROVE TypeOK' /\ HandsOK'
  <2>1. cur[Main] \in hash /\ NewUsers \in Vectors
    BY <1>9 DEF AddPark
  <2> DEFINE s == Append(list[NewUsers], cur[Main])
  <2>2. s \in Seq(Ids) /\ Range(s) \subseteq hash
    BY <2>1, AppendRange
  <2> HIDE DEF s
  <2>3. /\ [list EXCEPT ![NewUsers] = s] \in [Vectors -> Seq(Ids)]
        /\ \A w \in Vectors : Range([list EXCEPT ![NewUsers] = s][w]) \subseteq hash
    BY <2>1, <2>2, ListUpdate
  <2>4. list' = [list EXCEPT ![NewUsers] = s] /\ hash' = hash
    BY <1>9 DEF AddPark, s
  <2>5. /\ list' \in [Vectors -> Seq(Ids)]
        /\ \A w \in Vectors : Range(list'[w]) \subseteq hash'
    BY <2>3, <2>4
  <2>6. TypeOK'
    BY <1>9, <2>5 DEF AddPark
  <2>7. HandsOK'
    BY <1>9, <2>5 DEF AddPark
  <2> QED  BY <2>6, <2>7
<1>10. ASSUME ClearInit PROVE TypeOK' /\ HandsOK'
  BY <1>10 DEF ClearInit
<1>11. ASSUME NEW t \in Threads, UpdateLock(t) PROVE TypeOK' /\ HandsOK'
  BY <1>11 DEF UpdateLock
<1>12. ASSUME NEW t \in Threads, UpdateMove(t) PROVE TypeOK' /\ HandsOK'
  <2>1. Vector \in Vectors /\ NewUsers \in Vectors
    BY <1>12 DEF UpdateMove
  <2> DEFINE s == list[Vector] \o list[NewUsers]
  <2>2. s \in Seq(Ids) /\ Range(s) \subseteq hash
    BY <2>1, ConcatRange
  <2> HIDE DEF s
  <2>3. /\ [list EXCEPT ![Vector] = s] \in [Vectors -> Seq(Ids)]
        /\ \A w \in Vectors : Range([list EXCEPT ![Vector] = s][w]) \subseteq hash
    BY <2>1, <2>2, ListUpdate
  <2>4. list' = [list EXCEPT ![Vector] = s] /\ hash' = hash
    BY <1>12 DEF UpdateMove, s
  <2>5. /\ list' \in [Vectors -> Seq(Ids)]
        /\ \A w \in Vectors : Range(list'[w]) \subseteq hash'
    BY <2>3, <2>4
  <2>6. TypeOK'
    BY <1>12, <2>5 DEF UpdateMove
  <2>7. HandsOK'
    BY <1>12, <2>5 DEF UpdateMove
  <2> QED  BY <2>6, <2>7
<1>13. ASSUME NEW t \in Threads, UpdateForget(t) PROVE TypeOK' /\ HandsOK'
  <2>1. NewUsers \in Vectors
    BY <1>13 DEF UpdateForget
  <2> DEFINE s == <<>>
  <2>2. s \in Seq(Ids) /\ Range(s) \subseteq hash
    BY <2>1, EmptyRange
  <2> HIDE DEF s
  <2>3. /\ [list EXCEPT ![NewUsers] = s] \in [Vectors -> Seq(Ids)]
        /\ \A w \in Vectors : Range([list EXCEPT ![NewUsers] = s][w]) \subseteq hash
    BY <2>1, <2>2, ListUpdate
  <2>4. list' = [list EXCEPT ![NewUsers] = s] /\ hash' = hash
    BY <1>13 DEF UpdateForget, s
  <2>5. /\ list' \in [Vectors -> Seq(Ids)]
        /\ \A w \in Vectors : Range(list'[w]) \subseteq hash'
    BY <2>3, <2>4
  <2>6. TypeOK'
    BY <1>13, <2>5 DEF UpdateForget
  <2>7. HandsOK'
    BY <1>13, <2>5, ZenonT(30) DEF UpdateForget
  <2> QED  BY <2>6, <2>7
<1>14. ASSUME NEW t \in Threads, LockUser(t) PROVE TypeOK' /\ HandsOK'
  <2>1. /\ pc[t] = "lock_user"
        /\ \E l \in {"init", "del", "check_deleted", "touch"} :
             pc' = [pc EXCEPT ![t] = l] /\ (l = "init" => t = Main)
                                       /\ (l = "check_deleted" => t # Main)
    BY <1>14 DEF LockUser
  <2>2. TypeOK'
    BY <1>14, <2>1 DEF LockUser
  <2>3. HandsOK'
    BY <1>14, <2>1 DEF LockUser
  <2> QED  BY <2>2, <2>3
<1>15. ASSUME NEW t \in Threads, Touch(t) PROVE TypeOK' /\ HandsOK'
  <2>1. out' \in [Jobbers -> Seq(Ids)]
    <3>1. CASE t = Main
      BY <3>1, <1>15 DEF Touch
    <3>2. CASE t # Main
      <4>1. t \in Jobbers /\ cur[t] \in Ids
        BY <3>2, <1>15 DEF Touch
      <4>2. Append(out[t], cur[t]) \in Seq(Ids)
        BY <4>1, AppendRange
      <4> QED  BY <3>2, <4>1, <4>2, <1>15 DEF Touch
    <3> QED  BY <3>1, <3>2
  <2>2. \E l \in {"unlock_user", "del"} : pc' = [pc EXCEPT ![t] = l]
    BY <1>15 DEF Touch
  <2>3. TypeOK'
    <3>1. UNCHANGED <<hash, list, owner, userOwner, fields, deleted, cur, job, arg, pos>>
      BY <1>15 DEF Touch
    <3>2. /\ pc' \in [Threads -> MainPCs \cup JobPCs \cup SharedPCs]
          /\ pc'[Main] \in MainPCs \cup SharedPCs
          /\ \A x \in Jobbers : pc'[x] \in JobPCs \cup SharedPCs
      BY <2>2
    <3> HIDE DEF MainPCs, JobPCs, SharedPCs, AllCommands, AllJobs, Threads, Jobbers, Vectors
    <3> QED  BY <2>1, <3>1, <3>2
  <2>4. HandsOK'
    <3>1. /\ pc[t] = "touch"
          /\ UNCHANGED <<hash, list, cur, job, arg>>
      <4>1. pc[t] = "touch"
        BY <1>15 DEF Touch
      <4>2. UNCHANGED <<hash, list, cur, job, arg>>
        BY <1>15 DEF Touch
      <4> QED  BY <4>1, <4>2
    <3> QED  BY <2>2, <3>1
  <2> QED  BY <2>3, <2>4
<1>16. ASSUME NEW t \in Threads, UnlockUser(t) PROVE TypeOK' /\ HandsOK'
  BY <1>16 DEF UnlockUser
<1>17. ASSUME NEW t \in Threads, DelFields(t) PROVE TypeOK' /\ HandsOK'
  BY <1>17 DEF DelFields
<1>18. ASSUME NEW t \in Threads, DelFlag(t) PROVE TypeOK' /\ HandsOK'
  BY <1>18 DEF DelFlag
<1>19. ASSUME NEW t \in Threads, UndelFields(t) PROVE TypeOK' /\ HandsOK'
  BY <1>19 DEF UndelFields
<1>20. ASSUME NEW t \in Threads, UndelFlag(t) PROVE TypeOK' /\ HandsOK'
  BY <1>20 DEF UndelFlag
<1>21. ASSUME NEW t \in Jobbers, LockVector(t) PROVE TypeOK' /\ HandsOK'
  BY <1>21 DEF LockVector
<1>22. ASSUME NEW t \in Jobbers, UnlockVector(t) PROVE TypeOK' /\ HandsOK'
  <2>1. CASE /\ pc' = [pc EXCEPT ![t] = "free"]
             /\ job' = [job EXCEPT ![t] = "none"]
             /\ arg' = [arg EXCEPT ![t] = Vector]
    <3>1. TypeOK'
      BY <1>22, <2>1 DEF UnlockVector
    <3>2. HandsOK'
      BY <1>22, <2>1 DEF UnlockVector
    <3> QED  BY <3>1, <3>2
  <2>2. CASE /\ job[t] # "walk"
             /\ pc' = [pc EXCEPT ![t] = "reselect"]
             /\ UNCHANGED <<job, arg>>
    <3>1. TypeOK'
      BY <1>22, <2>2 DEF UnlockVector
    <3>2. HandsOK'
      BY <1>22, <2>2 DEF UnlockVector
    <3> QED  BY <3>1, <3>2
  <2> QED  BY <1>22, <2>1, <2>2 DEF UnlockVector
<1>23. ASSUME NEW t \in Jobbers, SelectLock(t) PROVE TypeOK' /\ HandsOK'
  BY <1>23 DEF SelectLock
<1>24. ASSUME NEW t \in Jobbers, SelectTarget(t) PROVE TypeOK' /\ HandsOK'
  <2>1. arg[t] \in Vectors
    BY <1>24 DEF SelectTarget
  <2> DEFINE s == <<>>
  <2>2. s \in Seq(Ids) /\ Range(s) \subseteq hash
    BY <2>1, EmptyRange
  <2> HIDE DEF s
  <2>3. /\ [list EXCEPT ![arg[t]] = s] \in [Vectors -> Seq(Ids)]
        /\ \A w \in Vectors : Range([list EXCEPT ![arg[t]] = s][w]) \subseteq hash
    BY <2>1, <2>2, ListUpdate
  <2>4. list' = [list EXCEPT ![arg[t]] = s] /\ hash' = hash
    BY <1>24 DEF SelectTarget, s
  <2>5. /\ list' \in [Vectors -> Seq(Ids)]
        /\ \A w \in Vectors : Range(list'[w]) \subseteq hash'
    BY <2>3, <2>4
  <2>6. TypeOK'
    BY <1>24, <2>5 DEF SelectTarget
  <2>7. HandsOK'
    BY <1>24, <2>5 DEF SelectTarget
  <2> QED  BY <2>6, <2>7
<1>25. ASSUME NEW t \in Jobbers, SelectNext(t) PROVE TypeOK' /\ HandsOK'
  <2> DEFINE u == list[Vector][pos[t]]
  <2>1. u \in hash /\ u \in Ids /\ arg[t] \in Vectors
    BY <1>25, AtIterator DEF SelectNext
  <2> HIDE DEF u
  <2>2. CASE pc' = [pc EXCEPT ![t] = "copy"] /\ pos' = [pos EXCEPT ![t] = @ + 1] /\ UNCHANGED <<list, cur>>
    <3>1. TypeOK'
      BY <1>25, <2>2 DEF SelectNext
    <3>2. HandsOK'
      BY <1>25, <2>2 DEF SelectNext
    <3> QED  BY <3>1, <3>2
  <2>3. CASE /\ pc' = [pc EXCEPT ![t] = "copy"] /\ pos' = [pos EXCEPT ![t] = @ + 1] /\ UNCHANGED cur
             /\ list' = [list EXCEPT ![arg[t]] = Append(@, u)]
    <3> DEFINE s == Append(list[arg[t]], u)
    <3>1. s \in Seq(Ids) /\ Range(s) \subseteq hash
      BY <2>1, AppendRange
    <3>2. list' = [list EXCEPT ![arg[t]] = s] /\ hash' = hash
      BY <2>1, <2>3, <1>25 DEF SelectNext
    <3> HIDE DEF s
    <3>3. /\ list' \in [Vectors -> Seq(Ids)]
          /\ \A w \in Vectors : Range(list'[w]) \subseteq hash'
      BY <2>1, <3>1, <3>2, ListUpdate
    <3>4. TypeOK'
      BY <1>25, <2>3, <3>3, SMTT(30) DEF SelectNext
    <3>5. HandsOK'
      BY <1>25, <2>3, <3>3, SMTT(30) DEF SelectNext
    <3> QED  BY <3>4, <3>5
  <2>4. CASE pc' = [pc EXCEPT ![t] = "filter"] /\ cur' = [cur EXCEPT ![t] = u] /\ UNCHANGED <<list, pos>>
    <3>1. TypeOK'
      BY <1>25, <2>1, <2>4 DEF SelectNext
    <3>2. HandsOK'
      BY <1>25, <2>1, <2>4 DEF SelectNext
    <3> QED  BY <3>1, <3>2
  <2> QED  BY <1>25, <2>2, <2>3, <2>4 DEF SelectNext, u
<1>26. ASSUME NEW t \in Jobbers, SelectFilter(t) PROVE TypeOK' /\ HandsOK'
  <2>1. cur[t] \in hash /\ arg[t] \in Vectors
    BY <1>26 DEF SelectFilter
  <2>2. \E s \in Seq(Ids) : Range(s) \subseteq hash /\ list' = [list EXCEPT ![arg[t]] = s]
    <3>1. CASE UNCHANGED list
      BY <3>1, <2>1, ListUpdate
    <3>2. CASE list' = [list EXCEPT ![arg[t]] = Append(@, cur[t])]
      <4>1. /\ Append(list[arg[t]], cur[t]) \in Seq(Ids)
            /\ Range(Append(list[arg[t]], cur[t])) \subseteq hash
        BY <2>1, AppendRange
      <4> QED  BY <3>2, <4>1
    <3> QED  BY <3>1, <3>2, <1>26 DEF SelectFilter
  <2>3. /\ list' \in [Vectors -> Seq(Ids)]
        /\ \A w \in Vectors : Range(list'[w]) \subseteq hash'
    BY <2>1, <2>2, ListUpdate, <1>26 DEF SelectFilter
  <2>4. TypeOK'
    BY <1>26, <2>3 DEF SelectFilter
  <2>5. HandsOK'
    BY <1>26, <2>3 DEF SelectFilter
  <2> QED  BY <2>4, <2>5
<1>27. ASSUME NEW t \in Jobbers, SelectFilled(t) PROVE TypeOK' /\ HandsOK'
  BY <1>27 DEF SelectFilled
<1>28. ASSUME NEW t \in Jobbers, SelectUnlock(t) PROVE TypeOK' /\ HandsOK'
  <2>1. CASE /\ pc' = [pc EXCEPT ![t] = "free"]
             /\ job' = [job EXCEPT ![t] = "none"]
             /\ arg' = [arg EXCEPT ![t] = Vector]
    <3>1. TypeOK'
      BY <1>28, <2>1 DEF SelectUnlock
    <3>2. HandsOK'
      BY <1>28, <2>1 DEF SelectUnlock
    <3> QED  BY <3>1, <3>2
  <2>2. CASE /\ job[t] = "dump"
             /\ pc' = [pc EXCEPT ![t] = "lock"]
             /\ UNCHANGED <<job, arg>>
    <3>1. TypeOK'
      BY <1>28, <2>2 DEF SelectUnlock
    <3>2. HandsOK'
      BY <1>28, <2>2 DEF SelectUnlock
    <3> QED  BY <3>1, <3>2
  <2> QED  BY <1>28, <2>1, <2>2 DEF SelectUnlock
<1>29. ASSUME NEW t \in Jobbers, Lock(t) PROVE TypeOK' /\ HandsOK'
  BY <1>29 DEF Lock
<1>30. ASSUME NEW t \in Jobbers, Wipe(t) PROVE TypeOK' /\ HandsOK'
  <2>1. arg[t] \in Vectors
    BY <1>30 DEF Wipe
  <2> DEFINE s == <<>>
  <2>2. s \in Seq(Ids) /\ Range(s) \subseteq hash
    BY <2>1, EmptyRange
  <2> HIDE DEF s
  <2>3. /\ [list EXCEPT ![arg[t]] = s] \in [Vectors -> Seq(Ids)]
        /\ \A w \in Vectors : Range([list EXCEPT ![arg[t]] = s][w]) \subseteq hash
    BY <2>1, <2>2, ListUpdate
  <2>4. list' = [list EXCEPT ![arg[t]] = s] /\ hash' = hash
    BY <1>30 DEF Wipe, s
  <2>5. /\ list' \in [Vectors -> Seq(Ids)]
        /\ \A w \in Vectors : Range(list'[w]) \subseteq hash'
    BY <2>3, <2>4
  <2>6. TypeOK'
    BY <1>30, <2>5 DEF Wipe
  <2>7. HandsOK'
    BY <1>30, <2>5 DEF Wipe
  <2> QED  BY <2>6, <2>7
<1>31. ASSUME NEW t \in Jobbers, ScanNext(t) PROVE TypeOK' /\ HandsOK'
  <2> DEFINE u == list[arg[t]][pos[t]]
  <2>1. u \in hash /\ u \in Ids
    BY <1>31, AtIterator DEF ScanNext
  <2> HIDE DEF u
  <2>2. CASE pc' = [pc EXCEPT ![t] = "scan"] /\ pos' = [pos EXCEPT ![t] = @ + 1] /\ UNCHANGED cur
    <3>1. TypeOK'
      BY <1>31, <2>2 DEF ScanNext
    <3>2. HandsOK'
      BY <1>31, <2>2 DEF ScanNext
    <3> QED  BY <3>1, <3>2
  <2>3. CASE pc' = [pc EXCEPT ![t] = "lock_user"] /\ cur' = [cur EXCEPT ![t] = u] /\ UNCHANGED pos
    <3>1. TypeOK'
      BY <1>31, <2>1, <2>3 DEF ScanNext
    <3>2. HandsOK'
      BY <1>31, <2>1, <2>3 DEF ScanNext
    <3> QED  BY <3>1, <3>2
  <2> QED  BY <1>31, <2>2, <2>3 DEF ScanNext, u
<1>32. ASSUME NEW t \in Jobbers, DumpCheck(t) PROVE TypeOK' /\ HandsOK'
  BY <1>32 DEF DumpCheck
<1>33. ASSUME NEW t \in Jobbers, Finish(t) PROVE TypeOK' /\ HandsOK'
  <2>1. t \in Vectors
    BY <1>33 DEF Finish
  <2> DEFINE s == <<>>
  <2>2. s \in Seq(Ids) /\ Range(s) \subseteq hash
    BY <2>1, EmptyRange
  <2> HIDE DEF s
  <2>3. /\ [list EXCEPT ![t] = s] \in [Vectors -> Seq(Ids)]
        /\ \A w \in Vectors : Range([list EXCEPT ![t] = s][w]) \subseteq hash
    BY <2>1, <2>2, ListUpdate
  <2>4. list' = [list EXCEPT ![t] = s] /\ hash' = hash
    BY <1>33 DEF Finish, s
  <2>5. /\ list' \in [Vectors -> Seq(Ids)]
        /\ \A w \in Vectors : Range(list'[w]) \subseteq hash'
    BY <2>3, <2>4
  <2>6. TypeOK'
    BY <1>33, <2>5 DEF Finish
  <2>7. HandsOK'
    BY <1>33, <2>5 DEF Finish
  <2> QED  BY <2>6, <2>7
<1>34. CASE UNCHANGED vars
  BY <1>34 DEF vars
<1> QED
  BY <1>1, <1>2, <1>3, <1>4, <1>5, <1>6, <1>7, <1>8, <1>9, <1>10, <1>11, <1>12, <1>13, <1>14, <1>15, <1>16, <1>17, <1>18, <1>19, <1>20, <1>21, <1>22, <1>23, <1>24, <1>25, <1>26, <1>27, <1>28, <1>29, <1>30, <1>31, <1>32, <1>33, <1>34
     DEF Next, Request, MainStep, Update, OnUser, JobStep

-----------------------------------------------------------------------------
\* What a step of thread t may do to the mutexes of the vectors: it takes a
\* free one as it enters its section, gives its own back as it leaves it, and
\* moves no other thread.
VectorMove(t) ==
  /\ \A x \in Threads \ {t} : pc'[x] = pc[x] /\ (x \in Jobbers => arg'[x] = arg[x])
  /\ \A v \in Vectors :
       \/ owner'[v] = owner[v] /\ (Holds(t, v)' <=> Holds(t, v))
       \/ owner[v] = Nobody /\ owner'[v] = t /\ Holds(t, v)'
       \/ owner[v] = t /\ owner'[v] = Nobody /\ ~Holds(t, v)'

\* Such a step keeps every mutex in the hands of the thread in its section.
LEMMA VectorLocksFrame ==
  ASSUME VectorLocksHeld, NEW t \in Threads, VectorMove(t)
  PROVE  VectorLocksHeld'
<1>1. \A x \in Threads \ {t}, v \in Vectors : Holds(x, v)' <=> Holds(x, v)
  BY DEF VectorMove, Holds, HoldsVector, HoldsNewUsers, HoldsArg
<1>2. Nobody \notin Threads
  BY ThreadsAssumption
<1> QED  BY <1>1, <1>2 DEF VectorLocksHeld, VectorMove

\* The same for the mutexes of the users.
UserMove(t) ==
  /\ \A x \in Threads \ {t} : pc'[x] = pc[x] /\ cur'[x] = cur[x]
  /\ \A k \in Stripes :
       \/ userOwner'[k] = userOwner[k] /\ (HoldsUser(t, k)' <=> HoldsUser(t, k))
       \/ userOwner[k] = Nobody /\ userOwner'[k] = t /\ HoldsUser(t, k)'
       \/ userOwner[k] = t /\ userOwner'[k] = Nobody /\ ~HoldsUser(t, k)'

\* Such a step keeps every user mutex in the hands of the thread that works on
\* a user of its stripe.
LEMMA UserLocksFrame ==
  ASSUME UserLocksHeld, NEW t \in Threads, UserMove(t)
  PROVE  UserLocksHeld'
<1>1. \A x \in Threads \ {t}, k \in Stripes : HoldsUser(x, k)' <=> HoldsUser(x, k)
  BY DEF UserMove, HoldsUser
<1>2. Nobody \notin Threads
  BY ThreadsAssumption
<1> QED  BY <1>1, <1>2 DEF UserLocksHeld, UserMove

\* Every step is such a step for the mutexes of the vectors.
LEMMA StepVectorLocks ==
  ASSUME TypeOK, HandsOK, VectorLocksHeld, [Next]_vars
  PROVE  VectorLocksHeld'
<1>0. /\ Main \in Threads /\ AutoDump \in Jobbers /\ Workers \subseteq Jobbers /\ Jobbers \subseteq Threads
      /\ Main \notin Jobbers /\ Nobody \notin Threads
      /\ owner \in [Vectors -> Threads \cup {Nobody}]
      /\ arg \in [Jobbers -> Vectors]
      /\ DOMAIN pc = Threads
      /\ \A v \in Vectors, t \in Threads : owner[v] = t <=> Holds(t, v)
      /\ Vector \in Vectors /\ NewUsers \in Vectors /\ Vector # NewUsers
      /\ \A t \in Jobbers : arg[t] # NewUsers
      /\ \A t \in Jobbers : job[t] # "user_clear"
      /\ \A t \in Jobbers : pc[t] \in {"reselect", "target", "copy", "filter", "filled"} => arg[t] # Vector
  <2>1. /\ Main \in Threads /\ AutoDump \in Jobbers /\ Workers \subseteq Jobbers /\ Jobbers \subseteq Threads
        /\ Main \notin Jobbers /\ Nobody \notin Threads
        /\ Vector \in Vectors /\ NewUsers \in Vectors /\ Vector # NewUsers
    BY ThreadsAssumption, VectorsAssumption DEF Threads, Jobbers, Vectors
  <2>2. \A t \in Jobbers : arg[t] # NewUsers
    BY VectorsAssumption DEF TypeOK
  <2>3. \A t \in Jobbers :
          pc[t] \in {"reselect", "target", "copy", "filter", "filled"} => arg[t] # Vector
    BY VectorsAssumption DEF HandsOK
  <2>4. /\ owner \in [Vectors -> Threads \cup {Nobody}]
        /\ arg \in [Jobbers -> Vectors]
        /\ DOMAIN pc = Threads
    BY DEF TypeOK
  <2>5. \A t \in Jobbers : job[t] # "user_clear"
    BY DEF TypeOK, AllJobs, Scans
  <2> QED  BY <2>1, <2>2, <2>3, <2>4, <2>5 DEF VectorLocksHeld
<1> USE DEF Goto, Acquire, Release, store, users, locks, progress,
           Holds, HoldsVector, HoldsNewUsers, HoldsArg, VectorMove
<1>1. ASSUME NEW u \in Ids, NEW c \in Commands, UserFind(u, c) PROVE VectorMove(Main)
  BY <1>0, <1>1 DEF UserFind
<1>2. ASSUME NEW u \in Ids, NEW c \in Commands, UserCreate(u, c) PROVE VectorMove(Main)
  BY <1>0, <1>2 DEF UserCreate
<1>3. ASSUME NEW u \in Ids, NEW c \in Commands, UserRevive(u, c) PROVE VectorMove(Main)
  BY <1>0, <1>3 DEF UserRevive
<1>4. ASSUME NEW w \in Workers, NEW j \in Jobs, Start(w, j) PROVE VectorMove(w)
  BY <1>0, <1>4 DEF Start, Begin
<1>5. ASSUME AutoStart PROVE VectorMove(AutoDump)
  BY <1>0, <1>5 DEF AutoStart, Begin
<1>6. ASSUME AddTrylock PROVE VectorMove(Main)
  BY <1>0, <1>6 DEF AddTrylock
<1>7. ASSUME AddPush PROVE VectorMove(Main)
  BY <1>0, <1>7 DEF AddPush
<1>8. ASSUME AddParkLock PROVE VectorMove(Main)
  BY <1>0, <1>8 DEF AddParkLock
<1>9. ASSUME AddPark PROVE VectorMove(Main)
  BY <1>0, <1>9 DEF AddPark
<1>10. ASSUME ClearInit PROVE VectorMove(Main)
  BY <1>0, <1>10 DEF ClearInit
<1>11. ASSUME NEW t \in Threads, UpdateLock(t) PROVE VectorMove(t)
  BY <1>0, <1>11 DEF UpdateLock
<1>12. ASSUME NEW t \in Threads, UpdateMove(t) PROVE VectorMove(t)
  BY <1>0, <1>12 DEF UpdateMove
<1>13. ASSUME NEW t \in Threads, UpdateForget(t) PROVE VectorMove(t)
  BY <1>0, <1>13 DEF UpdateForget
<1>14. ASSUME NEW t \in Threads, LockUser(t) PROVE VectorMove(t)
  BY <1>0, <1>14 DEF LockUser
<1>15. ASSUME NEW t \in Threads, Touch(t) PROVE VectorMove(t)
  BY <1>0, <1>15 DEF Touch
<1>16. ASSUME NEW t \in Threads, UnlockUser(t) PROVE VectorMove(t)
  BY <1>0, <1>16 DEF UnlockUser
<1>17. ASSUME NEW t \in Threads, DelFields(t) PROVE VectorMove(t)
  BY <1>0, <1>17 DEF DelFields
<1>18. ASSUME NEW t \in Threads, DelFlag(t) PROVE VectorMove(t)
  BY <1>0, <1>18 DEF DelFlag
<1>19. ASSUME NEW t \in Threads, UndelFields(t) PROVE VectorMove(t)
  BY <1>0, <1>19 DEF UndelFields
<1>20. ASSUME NEW t \in Threads, UndelFlag(t) PROVE VectorMove(t)
  BY <1>0, <1>20 DEF UndelFlag
<1>21. ASSUME NEW t \in Jobbers, LockVector(t) PROVE VectorMove(t)
  BY <1>0, <1>21 DEF LockVector
<1>22. ASSUME NEW t \in Jobbers, UnlockVector(t) PROVE VectorMove(t)
  BY <1>0, <1>22 DEF UnlockVector
<1>23. ASSUME NEW t \in Jobbers, SelectLock(t) PROVE VectorMove(t)
  BY <1>0, <1>23 DEF SelectLock
<1>24. ASSUME NEW t \in Jobbers, SelectTarget(t) PROVE VectorMove(t)
  BY <1>0, <1>24 DEF SelectTarget
<1>25. ASSUME NEW t \in Jobbers, SelectNext(t) PROVE VectorMove(t)
  BY <1>0, <1>25 DEF SelectNext
<1>26. ASSUME NEW t \in Jobbers, SelectFilter(t) PROVE VectorMove(t)
  BY <1>0, <1>26 DEF SelectFilter
<1>27. ASSUME NEW t \in Jobbers, SelectFilled(t) PROVE VectorMove(t)
  BY <1>0, <1>27 DEF SelectFilled
<1>28. ASSUME NEW t \in Jobbers, SelectUnlock(t) PROVE VectorMove(t)
  BY <1>0, <1>28 DEF SelectUnlock
<1>29. ASSUME NEW t \in Jobbers, Lock(t) PROVE VectorMove(t)
  BY <1>0, <1>29 DEF Lock
<1>30. ASSUME NEW t \in Jobbers, Wipe(t) PROVE VectorMove(t)
  BY <1>0, <1>30 DEF Wipe
<1>31. ASSUME NEW t \in Jobbers, ScanNext(t) PROVE VectorMove(t)
  BY <1>0, <1>31 DEF ScanNext
<1>32. ASSUME NEW t \in Jobbers, DumpCheck(t) PROVE VectorMove(t)
  BY <1>0, <1>32 DEF DumpCheck
<1>33. ASSUME NEW t \in Jobbers, Finish(t) PROVE VectorMove(t)
  BY <1>0, <1>33 DEF Finish, Done
<1>34. CASE UNCHANGED vars
  BY <1>34 DEF vars, VectorLocksHeld
<1> HIDE DEF Goto, Acquire, Release, store, users, locks, progress,
           Holds, HoldsVector, HoldsNewUsers, HoldsArg, VectorMove
<1>35. CASE Next
  <2>1. \E t \in Threads : VectorMove(t)
    BY <1>0, <1>35, <1>1, <1>2, <1>3, <1>4, <1>5, <1>6, <1>7, <1>8, <1>9, <1>10, <1>11,
       <1>12, <1>13, <1>14, <1>15, <1>16, <1>17, <1>18, <1>19, <1>20,
       <1>21, <1>22, <1>23, <1>24, <1>25, <1>26, <1>27, <1>28, <1>29,
       <1>30, <1>31, <1>32, <1>33
       DEF Next, Request, MainStep, Update, OnUser, JobStep
  <2> QED  BY <2>1, VectorLocksFrame
<1> QED  BY <1>34, <1>35

\* Every step is such a step for the mutexes of the users.
LEMMA StepUserLocks ==
  ASSUME TypeOK, HandsOK, UserLocksHeld, [Next]_vars
  PROVE  UserLocksHeld'
<1>0. /\ Main \in Threads /\ AutoDump \in Jobbers /\ Workers \subseteq Jobbers /\ Jobbers \subseteq Threads
      /\ Main \notin Jobbers /\ Nobody \notin Threads
      /\ userOwner \in [Stripes -> Threads \cup {Nobody}]
      /\ DOMAIN pc = Threads /\ DOMAIN cur = Threads
      /\ job[Main] # "dump"
      /\ \A k \in Stripes, t \in Threads : userOwner[k] = t <=> HoldsUser(t, k)
      /\ \A t \in Threads : pc[t] \in {"lock_user", "unlock_user"} => Stripe[cur[t]] \in Stripes
  <2>1. /\ Main \in Threads /\ AutoDump \in Jobbers /\ Workers \subseteq Jobbers /\ Jobbers \subseteq Threads
        /\ Main \notin Jobbers /\ Nobody \notin Threads
    BY ThreadsAssumption DEF Threads, Jobbers
  <2>2. /\ userOwner \in [Stripes -> Threads \cup {Nobody}]
        /\ DOMAIN pc = Threads /\ DOMAIN cur = Threads
    BY DEF TypeOK
  <2>3. job[Main] # "dump"
    BY DEF TypeOK, AllCommands
  <2>4. \A t \in Threads : pc[t] \in {"lock_user", "unlock_user"} => cur[t] \in Ids
    BY DEF TypeOK, HandsOK, Threads
  <2> QED  BY <2>1, <2>2, <2>3, <2>4, LoadAssumption DEF UserLocksHeld
<1> USE DEF Goto, Acquire, Release, store, users, locks, progress, HoldsUser, UserMove
<1>1. ASSUME NEW u \in Ids, NEW c \in Commands, UserFind(u, c) PROVE UserMove(Main)
  BY <1>0, <1>1 DEF UserFind
<1>2. ASSUME NEW u \in Ids, NEW c \in Commands, UserCreate(u, c) PROVE UserMove(Main)
  BY <1>0, <1>2 DEF UserCreate
<1>3. ASSUME NEW u \in Ids, NEW c \in Commands, UserRevive(u, c) PROVE UserMove(Main)
  BY <1>0, <1>3 DEF UserRevive
<1>4. ASSUME NEW w \in Workers, NEW j \in Jobs, Start(w, j) PROVE UserMove(w)
  BY <1>0, <1>4 DEF Start, Begin
<1>5. ASSUME AutoStart PROVE UserMove(AutoDump)
  BY <1>0, <1>5 DEF AutoStart, Begin
<1>6. ASSUME AddTrylock PROVE UserMove(Main)
  BY <1>0, <1>6 DEF AddTrylock
<1>7. ASSUME AddPush PROVE UserMove(Main)
  BY <1>0, <1>7 DEF AddPush
<1>8. ASSUME AddParkLock PROVE UserMove(Main)
  BY <1>0, <1>8 DEF AddParkLock
<1>9. ASSUME AddPark PROVE UserMove(Main)
  BY <1>0, <1>9 DEF AddPark
<1>10. ASSUME ClearInit PROVE UserMove(Main)
  BY <1>0, <1>10 DEF ClearInit
<1>11. ASSUME NEW t \in Threads, UpdateLock(t) PROVE UserMove(t)
  BY <1>0, <1>11 DEF UpdateLock
<1>12. ASSUME NEW t \in Threads, UpdateMove(t) PROVE UserMove(t)
  BY <1>0, <1>12 DEF UpdateMove
<1>13. ASSUME NEW t \in Threads, UpdateForget(t) PROVE UserMove(t)
  BY <1>0, <1>13 DEF UpdateForget
<1>14. ASSUME NEW t \in Threads, LockUser(t) PROVE UserMove(t)
  BY <1>0, <1>14 DEF LockUser
<1>15. ASSUME NEW t \in Threads, Touch(t) PROVE UserMove(t)
  BY <1>0, <1>15 DEF Touch
<1>16. ASSUME NEW t \in Threads, UnlockUser(t) PROVE UserMove(t)
  BY <1>0, <1>16 DEF UnlockUser
<1>17. ASSUME NEW t \in Threads, DelFields(t) PROVE UserMove(t)
  BY <1>0, <1>17 DEF DelFields
<1>18. ASSUME NEW t \in Threads, DelFlag(t) PROVE UserMove(t)
  BY <1>0, <1>18 DEF DelFlag
<1>19. ASSUME NEW t \in Threads, UndelFields(t) PROVE UserMove(t)
  BY <1>0, <1>19 DEF UndelFields
<1>20. ASSUME NEW t \in Threads, UndelFlag(t) PROVE UserMove(t)
  BY <1>0, <1>20 DEF UndelFlag
<1>21. ASSUME NEW t \in Jobbers, LockVector(t) PROVE UserMove(t)
  BY <1>0, <1>21 DEF LockVector
<1>22. ASSUME NEW t \in Jobbers, UnlockVector(t) PROVE UserMove(t)
  BY <1>0, <1>22 DEF UnlockVector
<1>23. ASSUME NEW t \in Jobbers, SelectLock(t) PROVE UserMove(t)
  BY <1>0, <1>23 DEF SelectLock
<1>24. ASSUME NEW t \in Jobbers, SelectTarget(t) PROVE UserMove(t)
  BY <1>0, <1>24 DEF SelectTarget
<1>25. ASSUME NEW t \in Jobbers, SelectNext(t) PROVE UserMove(t)
  BY <1>0, <1>25 DEF SelectNext
<1>26. ASSUME NEW t \in Jobbers, SelectFilter(t) PROVE UserMove(t)
  BY <1>0, <1>26 DEF SelectFilter
<1>27. ASSUME NEW t \in Jobbers, SelectFilled(t) PROVE UserMove(t)
  BY <1>0, <1>27 DEF SelectFilled
<1>28. ASSUME NEW t \in Jobbers, SelectUnlock(t) PROVE UserMove(t)
  BY <1>0, <1>28 DEF SelectUnlock
<1>29. ASSUME NEW t \in Jobbers, Lock(t) PROVE UserMove(t)
  BY <1>0, <1>29 DEF Lock
<1>30. ASSUME NEW t \in Jobbers, Wipe(t) PROVE UserMove(t)
  BY <1>0, <1>30 DEF Wipe
<1>31. ASSUME NEW t \in Jobbers, ScanNext(t) PROVE UserMove(t)
  BY <1>0, <1>31 DEF ScanNext
<1>32. ASSUME NEW t \in Jobbers, DumpCheck(t) PROVE UserMove(t)
  BY <1>0, <1>32 DEF DumpCheck
<1>33. ASSUME NEW t \in Jobbers, Finish(t) PROVE UserMove(t)
  BY <1>0, <1>33 DEF Finish, Done
<1>34. CASE UNCHANGED vars
  BY <1>34 DEF vars, UserLocksHeld
<1> HIDE DEF Goto, Acquire, Release, store, users, locks, progress, HoldsUser, UserMove
<1>35. CASE Next
  <2>1. \E t \in Threads : UserMove(t)
    BY <1>0, <1>35, <1>1, <1>2, <1>3, <1>4, <1>5, <1>6, <1>7, <1>8, <1>9, <1>10, <1>11,
       <1>12, <1>13, <1>14, <1>15, <1>16, <1>17, <1>18, <1>19, <1>20,
       <1>21, <1>22, <1>23, <1>24, <1>25, <1>26, <1>27, <1>28, <1>29,
       <1>30, <1>31, <1>32, <1>33
       DEF Next, Request, MainStep, Update, OnUser, JobStep
  <2> QED  BY <2>1, UserLocksFrame
<1> QED  BY <1>34, <1>35

-----------------------------------------------------------------------------
\* When the main thread is about to push its user on vector, vector_update has
\* emptied vector_new_users, and only the main thread puts users there.
NothingParked == pc[Main] = "push" => list[NewUsers] = <<>>

Conserved == StoreConserved /\ NothingParked

\* A step that leaves the two lists and the user in flight alone.
Quiet ==
  /\ hash' = hash /\ list'[Vector] = list[Vector] /\ list'[NewUsers] = list[NewUsers]
  /\ \A x \in Threads : pc'[x] = "forget" <=> pc[x] = "forget"
  /\ pc'[Main] = "push" => pc[Main] = "push"
  /\ InFlight' = InFlight

\* Such a step loses no user.
LEMMA ConservedFrame ==
  ASSUME Conserved, Quiet
  PROVE  Conserved'
<1>1. Placed' = Placed
  BY DEF Placed, Quiet
<1> QED  BY <1>1 DEF Conserved, StoreConserved, NothingParked, Quiet

\* No step loses a user: the five that move one are those of user_add and
\* vector_update, and every other one is quiet.
LEMMA StepConserved ==
  ASSUME TypeOK, HandsOK, VectorLocksHeld, Conserved, [Next]_vars
  PROVE  Conserved'
<1>0. /\ Main \in Threads /\ AutoDump \in Jobbers /\ Workers \subseteq Jobbers /\ Jobbers \subseteq Threads
      /\ Main \notin Jobbers
      /\ Vector \in Vectors /\ NewUsers \in Vectors /\ Vector # NewUsers
      /\ \A t \in Jobbers : t # Vector /\ t # NewUsers
      /\ list \in [Vectors -> Seq(Ids)]
      /\ DOMAIN pc = Threads /\ DOMAIN cur = Threads
      /\ \A t \in Jobbers : arg[t] # NewUsers
      /\ \A t \in Jobbers :
           pc[t] \in {"reselect", "target", "copy", "filter", "filled", "wipe"} => arg[t] # Vector
  <2>1. /\ Main \in Threads /\ AutoDump \in Jobbers /\ Workers \subseteq Jobbers /\ Jobbers \subseteq Threads
        /\ Main \notin Jobbers
        /\ Vector \in Vectors /\ NewUsers \in Vectors /\ Vector # NewUsers
        /\ \A t \in Jobbers : t # Vector /\ t # NewUsers
    BY ThreadsAssumption, VectorsAssumption DEF Threads, Jobbers, Vectors
  <2>2. /\ list \in [Vectors -> Seq(Ids)]
        /\ DOMAIN pc = Threads /\ DOMAIN cur = Threads
        /\ \A t \in Jobbers : arg[t] # NewUsers
    BY VectorsAssumption DEF TypeOK
  <2>3. \A t \in Jobbers :
          pc[t] \in {"reselect", "target", "copy", "filter", "filled", "wipe"} => arg[t] # Vector
    BY VectorsAssumption DEF HandsOK
  <2> QED  BY <2>1, <2>2, <2>3
<1> USE DEF Goto, Acquire, Release, store, users, locks, progress, Quiet
<1>a. ASSUME NEW x \in Threads, NEW y \in Threads, pc[x] = "forget",
             pc[y] \in {"push", "park", "move", "forget"}
      PROVE  x = y
  <2>1. Holds(x, Vector) /\ Holds(x, NewUsers)
    BY <1>a DEF Holds, HoldsVector, HoldsNewUsers
  <2>2. Holds(y, Vector) \/ Holds(y, NewUsers)
    BY <1>a DEF Holds, HoldsVector, HoldsNewUsers
  <2> QED  BY <1>0, <2>1, <2>2 DEF VectorLocksHeld
<1>1. ASSUME NEW u \in Ids, NEW c \in Commands, UserFind(u, c) PROVE Quiet
  BY <1>0, <1>1 DEF UserFind, InFlight
<1>2. ASSUME NEW u \in Ids, NEW c \in Commands, UserRevive(u, c) PROVE Quiet
  BY <1>0, <1>2 DEF UserRevive, InFlight
<1>3. ASSUME NEW u \in Ids, NEW c \in Commands, UserCreate(u, c) PROVE Conserved'
  <2>1. Placed' = Placed
    BY <1>0, <1>3 DEF UserCreate, Placed
  <2>2. hash' \ InFlight' = hash \ InFlight
    <3>1. InFlight = {} /\ u \notin hash /\ hash' = hash \cup {u}
      BY <1>0, <1>3 DEF UserCreate, InFlight
    <3>2. InFlight' = {u}
      <4>1. pc'[Main] = "trylock" /\ cur'[Main] = u
        BY <1>0, <1>3 DEF UserCreate, TypeOK
      <4> QED  BY <4>1 DEF InFlight
    <3> QED  BY <3>1, <3>2
  <2>3. NothingParked'
    BY <1>0, <1>3 DEF UserCreate, NothingParked
  <2> QED  BY <2>1, <2>2, <2>3 DEF Conserved, StoreConserved
<1>4. ASSUME NEW w \in Workers, NEW j \in Jobs, Start(w, j) PROVE Quiet
  BY <1>0, <1>4 DEF Start, Begin, InFlight
<1>5. ASSUME AutoStart PROVE Quiet
  BY <1>0, <1>5 DEF AutoStart, Begin, InFlight
<1>6. ASSUME AddTrylock PROVE Quiet
  BY <1>0, <1>6 DEF AddTrylock, InFlight
<1>7. ASSUME AddParkLock PROVE Quiet
  BY <1>0, <1>7 DEF AddParkLock, InFlight
<1>8. ASSUME ClearInit PROVE Quiet
  BY <1>0, <1>8 DEF ClearInit, InFlight
<1>9. ASSUME AddPush PROVE Conserved'
  <2>1. cur[Main] \in hash /\ cur[Main] \in Ids /\ InFlight = {cur[Main]}
    BY <1>9 DEF AddPush, HandsOK, TypeOK, InFlight
  <2>2. /\ ~\E x \in Threads : pc[x] = "forget"
        /\ ~\E x \in Threads : pc'[x] = "forget"
    BY <1>0, <1>a, <1>9 DEF AddPush
  <2>3. list[NewUsers] = <<>>
    BY <1>9 DEF AddPush, Conserved, NothingParked
  <2>4. /\ list'[Vector] = Append(list[Vector], cur[Main])
        /\ list'[NewUsers] = list[NewUsers]
        /\ hash' = hash
    BY <1>0, <1>9 DEF AddPush
  <2>5. Placed = list[Vector]
    BY <1>0, <2>2, <2>3, ConcatEmptySeq DEF Placed
  <2>6. Placed' = Append(Placed, cur[Main])
    <3>1. Append(list[Vector], cur[Main]) \in Seq(Ids)
      BY <1>0, <2>1, AppendRange
    <3> QED  BY <2>2, <2>3, <2>4, <2>5, <3>1, ConcatEmptySeq DEF Placed
  <2>7. InFlight' = {}
    BY <1>0, <1>9 DEF AddPush, InFlight
  <2>8. cur[Main] \notin Range(Placed) /\ IsInjective(Placed) /\ Range(Placed) = hash \ {cur[Main]}
    BY <2>1 DEF Conserved, StoreConserved
  <2>9. IsInjective(Placed') /\ Range(Placed') = hash' \ InFlight'
    <3>1. Placed \in Seq(Ids)
      BY <1>0, <2>5
    <3>2. IsInjective(Append(Placed, cur[Main]))
      BY <3>1, <2>1, <2>8, AppendInjection
    <3>3. Range(Append(Placed, cur[Main])) = Range(Placed) \cup {cur[Main]}
      BY <3>1, <2>1, AppendRange
    <3> QED  BY <2>1, <2>4, <2>6, <2>7, <2>8, <3>2, <3>3
  <2>10. NothingParked'
    BY <1>0, <1>9 DEF AddPush, NothingParked
  <2> QED  BY <2>9, <2>10 DEF Conserved, StoreConserved
<1>10. ASSUME AddPark PROVE Conserved'
  <2>1. cur[Main] \in hash /\ cur[Main] \in Ids /\ InFlight = {cur[Main]}
    BY <1>10 DEF AddPark, HandsOK, TypeOK, InFlight
  <2>2. /\ ~\E x \in Threads : pc[x] = "forget"
        /\ ~\E x \in Threads : pc'[x] = "forget"
    BY <1>0, <1>a, <1>10 DEF AddPark
  <2>3. /\ list'[Vector] = list[Vector]
        /\ list'[NewUsers] = Append(list[NewUsers], cur[Main])
        /\ hash' = hash
    BY <1>0, <1>10 DEF AddPark
  <2>4. Placed = list[Vector] \o list[NewUsers] /\ Placed \in Seq(Ids)
    BY <1>0, <2>2, ConcatProperties DEF Placed
  <2>5. Placed' = Append(Placed, cur[Main])
    <3>1. Append(list[NewUsers], cur[Main]) = list[NewUsers] \o <<cur[Main]>> /\ <<cur[Main]>> \in Seq(Ids)
      BY <1>0, <2>1, AppendIsConcat
    <3>2. Append(Placed, cur[Main]) = Placed \o <<cur[Main]>>
      BY <2>1, <2>4, AppendIsConcat
    <3>3. (list[Vector] \o list[NewUsers]) \o <<cur[Main]>> = list[Vector] \o (list[NewUsers] \o <<cur[Main]>>)
      BY <1>0, <3>1, ConcatAssociative
    <3>4. Placed' = list'[Vector] \o list'[NewUsers]
      BY <2>2 DEF Placed
    <3> QED  BY <2>3, <2>4, <3>1, <3>2, <3>3, <3>4
  <2>6. InFlight' = {}
    BY <1>0, <1>10 DEF AddPark, InFlight
  <2>7. cur[Main] \notin Range(Placed) /\ IsInjective(Placed) /\ Range(Placed) = hash \ {cur[Main]}
    BY <2>1 DEF Conserved, StoreConserved
  <2>8. IsInjective(Placed') /\ Range(Placed') = hash' \ InFlight'
    <3>1. IsInjective(Append(Placed, cur[Main]))
      BY <2>1, <2>4, <2>7, AppendInjection
    <3>2. Range(Append(Placed, cur[Main])) = Range(Placed) \cup {cur[Main]}
      <4>1. Placed \in Seq(Ids) /\ cur[Main] \in Ids
        BY <2>1, <2>4
      <4> QED  BY <4>1, AppendRange
    <3> QED  BY <2>1, <2>3, <2>5, <2>6, <2>7, <3>1, <3>2
  <2>9. NothingParked'
    BY <1>0, <1>10 DEF AddPark, NothingParked
  <2> QED  BY <2>8, <2>9 DEF Conserved, StoreConserved
<1>11. ASSUME NEW t \in Threads, UpdateMove(t) PROVE Conserved'
  <2>1. ~\E x \in Threads : pc[x] = "forget"
    BY <1>0, <1>a, <1>11 DEF UpdateMove
  <2>2. \E x \in Threads : pc'[x] = "forget"
    BY <1>0, <1>11 DEF UpdateMove
  <2>3. list'[Vector] = list[Vector] \o list[NewUsers] /\ hash' = hash
    BY <1>0, <1>11 DEF UpdateMove
  <2>4. Placed' = Placed
    BY <2>1, <2>2, <2>3 DEF Placed
  <2>5. InFlight' = InFlight
    BY <1>0, <1>11 DEF UpdateMove, InFlight
  <2>6. NothingParked'
    BY <1>0, <1>11 DEF UpdateMove, Conserved, NothingParked
  <2> QED  BY <2>3, <2>4, <2>5, <2>6 DEF Conserved, StoreConserved
<1>12. ASSUME NEW t \in Threads, UpdateForget(t) PROVE Conserved'
  <2>1. pc[t] = "forget" /\ ~\E x \in Threads : pc'[x] = "forget"
    BY <1>0, <1>a, <1>12 DEF UpdateForget
  <2>2. list'[Vector] = list[Vector] /\ list'[NewUsers] = <<>> /\ hash' = hash
    BY <1>0, <1>12 DEF UpdateForget
  <2>3. Placed' = Placed
    BY <1>0, <2>1, <2>2, ConcatEmptySeq DEF Placed
  <2>4. InFlight' = InFlight
    BY <1>0, <1>12 DEF UpdateForget, InFlight
  <2>5. NothingParked'
    BY <2>2 DEF NothingParked
  <2> QED  BY <2>2, <2>3, <2>4, <2>5 DEF Conserved, StoreConserved
<1>13. ASSUME NEW t \in Threads, UpdateLock(t) PROVE Quiet
  BY <1>0, <1>13 DEF UpdateLock, InFlight
<1>14. ASSUME NEW t \in Threads, LockUser(t) PROVE Quiet
  BY <1>0, <1>14 DEF LockUser, InFlight
<1>15. ASSUME NEW t \in Threads, Touch(t) PROVE Quiet
  BY <1>0, <1>15 DEF Touch, InFlight
<1>16. ASSUME NEW t \in Threads, UnlockUser(t) PROVE Quiet
  <2>1. \A x \in Threads : pc'[x] = "forget" <=> pc[x] = "forget"
    BY <1>0, <1>16 DEF UnlockUser
  <2>2. InFlight' = InFlight
    <3>1. CASE t = Main
      <4>1. InFlight = {}
        BY <1>16, <3>1 DEF UnlockUser, InFlight
      <4>2. InFlight' = {}
        BY <1>0, <1>16, <3>1 DEF UnlockUser, InFlight
      <4> QED  BY <4>1, <4>2
    <3>2. CASE t # Main
      <4>1. pc'[Main] = pc[Main] /\ cur'[Main] = cur[Main]
        BY <1>0, <1>16, <3>2 DEF UnlockUser
      <4> QED  BY <4>1 DEF InFlight
    <3> QED  BY <3>1, <3>2
  <2> QED  BY <1>0, <1>16, <2>1, <2>2 DEF UnlockUser
<1>17. ASSUME NEW t \in Threads, DelFields(t) PROVE Quiet
  BY <1>0, <1>17 DEF DelFields, InFlight
<1>18. ASSUME NEW t \in Threads, DelFlag(t) PROVE Quiet
  BY <1>0, <1>18 DEF DelFlag, InFlight
<1>19. ASSUME NEW t \in Threads, UndelFields(t) PROVE Quiet
  BY <1>0, <1>19 DEF UndelFields, InFlight
<1>20. ASSUME NEW t \in Threads, UndelFlag(t) PROVE Quiet
  BY <1>0, <1>20 DEF UndelFlag, InFlight
<1>21. ASSUME NEW t \in Jobbers, LockVector(t) PROVE Quiet
  BY <1>0, <1>21 DEF LockVector, InFlight
<1>22. ASSUME NEW t \in Jobbers, UnlockVector(t) PROVE Quiet
  BY <1>0, <1>22 DEF UnlockVector, InFlight
<1>23. ASSUME NEW t \in Jobbers, SelectLock(t) PROVE Quiet
  BY <1>0, <1>23 DEF SelectLock, InFlight
<1>24. ASSUME NEW t \in Jobbers, SelectTarget(t) PROVE Quiet
  BY <1>0, <1>24 DEF SelectTarget, InFlight
<1>25. ASSUME NEW t \in Jobbers, SelectNext(t) PROVE Quiet
  <2>1. pc'[Main] = pc[Main] /\ cur'[Main] = cur[Main]
    BY <1>0, <1>25 DEF SelectNext
  <2>2. InFlight' = InFlight
    BY <2>1 DEF InFlight
  <2> QED  BY <1>0, <1>25, <2>2 DEF SelectNext
<1>26. ASSUME NEW t \in Jobbers, SelectFilter(t) PROVE Quiet
  <2>1. pc'[Main] = pc[Main] /\ cur'[Main] = cur[Main]
    BY <1>0, <1>26 DEF SelectFilter
  <2>2. InFlight' = InFlight
    BY <2>1 DEF InFlight
  <2> QED  BY <1>0, <1>26, <2>2 DEF SelectFilter
<1>27. ASSUME NEW t \in Jobbers, SelectFilled(t) PROVE Quiet
  BY <1>0, <1>27 DEF SelectFilled, InFlight
<1>28. ASSUME NEW t \in Jobbers, SelectUnlock(t) PROVE Quiet
  BY <1>0, <1>28 DEF SelectUnlock, InFlight
<1>29. ASSUME NEW t \in Jobbers, Lock(t) PROVE Quiet
  BY <1>0, <1>29 DEF Lock, InFlight
<1>30. ASSUME NEW t \in Jobbers, Wipe(t) PROVE Quiet
  BY <1>0, <1>30 DEF Wipe, InFlight
<1>31. ASSUME NEW t \in Jobbers, ScanNext(t) PROVE Quiet
  <2>1. pc'[Main] = pc[Main] /\ cur'[Main] = cur[Main]
    BY <1>0, <1>31 DEF ScanNext
  <2>2. InFlight' = InFlight
    BY <2>1 DEF InFlight
  <2> QED  BY <1>0, <1>31, <2>2 DEF ScanNext
<1>32. ASSUME NEW t \in Jobbers, DumpCheck(t) PROVE Quiet
  BY <1>0, <1>32 DEF DumpCheck, InFlight
<1>33. ASSUME NEW t \in Jobbers, Finish(t) PROVE Quiet
  BY <1>0, <1>33 DEF Finish, Done, InFlight
<1>34. CASE UNCHANGED vars
  BY <1>34 DEF vars, Conserved, StoreConserved, NothingParked, Placed, InFlight
<1> HIDE DEF Goto, Acquire, Release, store, users, locks, progress, Quiet
<1>35. CASE Next
  <2>1. Quiet \/ Conserved'
    BY <1>0, <1>35, <1>1, <1>2, <1>3, <1>4, <1>5, <1>6, <1>7, <1>8, <1>9, <1>10, <1>11,
       <1>12, <1>13, <1>14, <1>15, <1>16, <1>17, <1>18, <1>19, <1>20,
       <1>21, <1>22, <1>23, <1>24, <1>25, <1>26, <1>27, <1>28, <1>29,
       <1>30, <1>31, <1>32, <1>33
       DEF Next, Request, MainStep, Update, OnUser, JobStep
  <2> QED  BY <2>1, ConservedFrame
<1> QED  BY <1>34, <1>35

-----------------------------------------------------------------------------
\* The inductive invariant: StoreConserved alone is not inductive, since the
\* step that clears vector_new_users would lose a user parked in between if
\* the mutexes did not exclude that (VectorLocksHeld), and the threads must
\* hold the vectors and users they are meant to hold (TypeOK, HandsOK).
IInv == TypeOK /\ HandsOK /\ LocksHeld /\ Conserved

\* The server starts in the invariant.
LEMMA InitInv == Init => IInv
<1> SUFFICES ASSUME Init PROVE IInv
  OBVIOUS
<1>1. TypeOK /\ HandsOK
  BY InitTypes
<1>2. VectorLocksHeld
  BY ThreadsAssumption DEF Init, VectorLocksHeld, Holds, HoldsVector, HoldsNewUsers, HoldsArg, Threads
<1>3. UserLocksHeld
  BY ThreadsAssumption DEF Init, UserLocksHeld, HoldsUser, Threads
<1>4. Conserved
  <2>1. /\ list[Vector] = Restored /\ list[NewUsers] = <<>> /\ hash = Range(Restored)
        /\ ~\E t \in Threads : pc[t] = "forget"
        /\ pc[Main] = "idle"
    BY VectorsAssumption DEF Init, Vectors, Threads
  <2>2. Placed = Restored
    BY <2>1, LoadAssumption, ConcatEmptySeq DEF Placed
  <2>3. InFlight = {}
    BY <2>1 DEF InFlight
  <2> QED  BY <2>1, <2>2, <2>3, LoadAssumption DEF Conserved, StoreConserved, NothingParked
<1> QED  BY <1>1, <1>2, <1>3, <1>4 DEF IInv, LocksHeld

\* Every step keeps the invariant.
LEMMA StepInv == IInv /\ [Next]_vars => IInv'
BY StepTypes, StepVectorLocks, StepUserLocks, StepConserved DEF IInv, LocksHeld

\* Every reachable state satisfies the inductive invariant.
THEOREM Invariance == Spec => []IInv
BY InitInv, StepInv, PTL DEF Spec

\* Every variable of the store keeps its type, for any number of users,
\* stripes, sets and threads.
THEOREM TypeCorrect == Spec => []TypeOK
BY Invariance, PTL DEF IInv

\* No two threads are ever inside sections of the same VectorUsers or of the
\* same user mutex, and every mutex is held by the thread that is inside.
THEOREM MutualExclusion == Spec => []LocksHeld
BY Invariance, PTL DEF IInv

\* Users::user_add and Users::vector_update lose no user and list none twice,
\* whatever the other threads do.
THEOREM NoUserLost == Spec => []StoreConserved
BY Invariance, PTL DEF IInv, Conserved

-----------------------------------------------------------------------------
(***************************************************************************)
(* Where deleted and field[] agree, as long as clients send no cleanup.  A *)
(* cleanup deletes users from another thread than Main, between the test   *)
(* of user_find and the lock of the command, the race of run               *)
(* users_existing, and then neither holds: the "user clear" that follows   *)
(* resets the flag of a user without fields.                               *)
(***************************************************************************)
NoCleanup == "cleanup" \notin Jobs

\* The places where a command of the main thread has found its user, or made
\* it, and the user is not deleted.
Found == {"trylock", "update", "move", "forget", "push", "lock_new", "park",
          "lock_user", "touch", "init", "del"}

\* Without a cleanup only the main thread deletes.
NoJobDeletes ==
  \A t \in Jobbers : job[t] # "cleanup" /\ pc[t] \notin {"del", "flag"}

\* A user the store does not know has no fields and is not deleted.
UnknownUsers ==
  \A u \in Ids : IF u \in hash THEN fields[u] # "none"
                               ELSE fields[u] = "none" /\ ~deleted[u]

\* Inside User::del and User::undel the fields are ahead of the flag.
HalfWay ==
  /\ \A t \in Threads : pc[t] = "revive" => fields[cur[t]] = "alloc"
  /\ pc[Main] = "flag" => fields[cur[Main]] = "freed"

\* The main thread works on users that are not deleted.
MainFound == pc[Main] \in Found => ~deleted[cur[Main]]

FInv ==
  /\ NoJobDeletes /\ UnknownUsers /\ HalfWay /\ MainFound
  /\ FieldsMatchFlag /\ DumpReadsLiveFields

\* The server starts with every flag true to the fields.
LEMMA InitFields == Init => FInv
<1> SUFFICES ASSUME Init PROVE FInv
  OBVIOUS
<1>1. /\ hash \subseteq Ids /\ Main \in Threads
      /\ \A u \in Ids : ~deleted[u] /\ fields[u] = IF u \in hash THEN "alloc" ELSE "none"
      /\ \A t \in Threads : pc[t] \in {"idle", "free"} /\ job[t] = "none"
      /\ Jobbers \subseteq Threads
  BY InitTypes DEF Init, TypeOK, Threads
<1> QED
  BY <1>1 DEF FInv, NoJobDeletes, UnknownUsers, HalfWay, MainFound, Found, FieldsMatchFlag,
              DumpReadsLiveFields

\* A step of thread x that changes no field and no flag, and does not leave or
\* enter User::del and User::undel half-way.
Aside(x) ==
  /\ hash' = hash /\ fields' = fields /\ deleted' = deleted
  /\ \A t \in Threads \ {x} : pc'[t] = pc[t] /\ cur'[t] = cur[t] /\ job'[t] = job[t]
  /\ pc[x] \notin {"flag", "revive"} /\ pc'[x] \notin {"flag", "revive"}
  /\ x = Main => (pc'[x] \in Found => ~deleted[cur'[x]])
  /\ x # Main =>
       /\ job'[x] # "cleanup" /\ pc'[x] # "del"
       /\ pc'[x] = "touch" /\ job'[x] = "dump" => fields[cur'[x]] = "alloc"

\* Such a step keeps the flags true to the fields.
LEMMA AsideFields ==
  ASSUME TypeOK, HandsOK, FInv, NEW x \in Threads, Aside(x)
  PROVE  FInv'
<1>0. Main \in Threads /\ Jobbers \subseteq Threads /\ Main \notin Jobbers
  BY ThreadsAssumption DEF Threads
<1>1. NoJobDeletes' /\ UnknownUsers' /\ HalfWay' /\ MainFound'
  BY <1>0 DEF FInv, Aside, NoJobDeletes, UnknownUsers, HalfWay, MainFound, Found
<1>2. FieldsMatchFlag'
  BY <1>0 DEF FInv, Aside, FieldsMatchFlag
<1>3. DumpReadsLiveFields'
  BY <1>0 DEF FInv, Aside, DumpReadsLiveFields
<1> QED  BY <1>1, <1>2, <1>3 DEF FInv

\* Every step does.
LEMMA StepFields ==
  ASSUME NoCleanup, IInv, FInv, [Next]_vars
  PROVE  FInv'
<1>0. /\ Main \in Threads /\ AutoDump \in Jobbers /\ Workers \subseteq Jobbers /\ Jobbers \subseteq Threads
      /\ Main \notin Jobbers /\ Threads = Jobbers \cup {Main}
      /\ DOMAIN pc = Threads /\ DOMAIN cur = Threads /\ DOMAIN job = Threads
      /\ fields \in [Ids -> {"none", "alloc", "freed"}] /\ deleted \in [Ids -> BOOLEAN]
      /\ hash \subseteq Ids
      /\ job[Main] \in AllCommands \cup {"none"}
      /\ \A t \in Jobbers : job[t] \in AllJobs \cup {"none"}
      /\ TypeOK /\ HandsOK
  BY ThreadsAssumption DEF Threads, Jobbers, IInv, TypeOK
\* Two threads do not work on one user.
<1>a. ASSUME NEW x \in Threads, NEW y \in Threads, cur[x] = cur[y], cur[x] \in Ids,
             pc[x] \in {"check_deleted", "touch", "init", "del", "flag", "unlock_user"}
               \/ (x # Main /\ pc[x] \in {"undel", "revive"}),
             pc[y] \in {"check_deleted", "touch", "init", "del", "flag", "unlock_user"}
               \/ (y # Main /\ pc[y] \in {"undel", "revive"})
      PROVE  x = y
  <2>1. Stripe[cur[x]] \in Stripes
    BY <1>a, LoadAssumption
  <2>2. HoldsUser(x, Stripe[cur[x]]) /\ HoldsUser(y, Stripe[cur[x]])
    BY <1>a DEF HoldsUser
  <2> QED  BY <2>1, <2>2 DEF IInv, LocksHeld, UserLocksHeld
<1>b. \A t \in Threads : pc[t] \in {"revive", "undel", "touch", "del", "flag", "check_deleted", "init"}
        => cur[t] \in hash
  <2>1. \A t \in Jobbers : pc[t] # "init"
    BY <1>0 DEF TypeOK, JobPCs, SharedPCs
  <2> QED  BY <1>0, <2>1 DEF HandsOK
<1>c. \A t \in Jobbers : job[t] # "cleanup" /\ pc[t] \notin {"del", "flag"}
  BY DEF FInv, NoJobDeletes
<1> USE DEF Goto, store, users, locks, progress, Found
<1>1. ASSUME NEW u \in Ids, NEW c \in Commands, UserFind(u, c) \/ UserRevive(u, c) PROVE Aside(Main)
  BY <1>0, <1>1 DEF UserFind, UserRevive, Aside
<1>2. ASSUME NEW u \in Ids, NEW c \in Commands, UserCreate(u, c) PROVE FInv'
  <2>1. /\ u \notin hash /\ hash' = hash \cup {u} /\ deleted' = deleted
        /\ fields' = [fields EXCEPT ![u] = "alloc"]
        /\ pc[Main] = "idle" /\ pc'[Main] = "trylock" /\ cur'[Main] = u
        /\ \A t \in Jobbers : pc'[t] = pc[t] /\ cur'[t] = cur[t] /\ job'[t] = job[t]
    BY <1>0, <1>2 DEF UserCreate
  <2>2. ~deleted[u]
    BY <2>1 DEF FInv, UnknownUsers
  <2>3. NoJobDeletes' /\ UnknownUsers' /\ MainFound'
    BY <1>0, <2>1, <2>2 DEF FInv, NoJobDeletes, UnknownUsers, MainFound
  <2>4. HalfWay'
    BY <1>0, <2>1 DEF FInv, HalfWay
  <2>5. FieldsMatchFlag'
    BY <1>0, <2>1, <2>2 DEF FInv, FieldsMatchFlag
  <2>6. DumpReadsLiveFields'
    BY <1>0, <2>1 DEF FInv, DumpReadsLiveFields
  <2> QED  BY <2>3, <2>4, <2>5, <2>6 DEF FInv
<1>3. ASSUME NEW t \in Jobbers, NEW v, NEW j \in Jobs \cup {"dump"}, Begin(t, j, v), UNCHANGED hash
      PROVE  Aside(t)
  BY <1>0, <1>3 DEF Begin, Aside, NoCleanup
<1>4. ASSUME NEW w \in Workers, NEW j \in Jobs, Start(w, j) PROVE Aside(w)
  BY <1>0, <1>3, <1>4 DEF Start, Begin
<1>5. ASSUME AutoStart PROVE Aside(AutoDump)
  BY <1>0, <1>3, <1>5 DEF AutoStart, Begin
<1>6. ASSUME AddTrylock \/ AddPush \/ AddParkLock \/ AddPark PROVE Aside(Main)
  <2>1. ~deleted[cur[Main]]
    BY <1>6 DEF AddTrylock, AddPush, AddParkLock, AddPark, FInv, MainFound
  <2> QED  BY <1>0, <1>6, <2>1 DEF AddTrylock, AddPush, AddParkLock, AddPark, Aside
<1>7. CASE ClearInit
  <2>1. ~deleted[cur[Main]] /\ deleted' = deleted
    BY <1>0, <1>7 DEF ClearInit, FInv, MainFound
  <2>2. Aside(Main)
    BY <1>0, <1>7, <2>1 DEF ClearInit, Aside
  <2> QED  BY <1>0, <2>2, AsideFields
<1>8. ASSUME NEW t \in Threads, Update(t) PROVE Aside(t)
  <2>1. t = Main => ~deleted[cur[Main]]
    BY <1>8 DEF Update, UpdateLock, UpdateMove, UpdateForget, FInv, MainFound
  <2> QED  BY <1>0, <1>c, <1>8, <2>1 DEF Update, UpdateLock, UpdateMove, UpdateForget, Aside
<1>9. ASSUME NEW t \in Threads, LockUser(t) PROVE Aside(t)
  <2>1. CASE t = Main
    <3>1. ~deleted[cur[Main]]
      BY <1>9, <2>1 DEF LockUser, FInv, MainFound
    <3> QED  BY <1>0, <1>9, <2>1, <3>1 DEF LockUser, Aside, AllCommands
  <2>2. CASE t # Main
    <3>1. t \in Jobbers /\ job[t] \notin {"user_clear", "user_delete"}
      BY <1>0, <2>2 DEF AllJobs, Scans
    <3> QED  BY <1>0, <1>c, <1>9, <2>2, <3>1 DEF LockUser, Aside
  <2> QED  BY <2>1, <2>2
<1>10. ASSUME NEW t \in Threads, Touch(t) PROVE Aside(t)
  <2>1. job[t] # "cleanup"
    BY <1>0, <1>c DEF AllCommands
  <2> QED  BY <1>0, <1>c, <1>10, <2>1 DEF Touch, Aside
<1>11. ASSUME NEW t \in Threads, UnlockUser(t) PROVE Aside(t)
  BY <1>0, <1>c, <1>11 DEF UnlockUser, Aside
<1>12. ASSUME NEW t \in Threads, DelFields(t) PROVE FInv'
  <2>1. /\ t = Main /\ pc[Main] = "del" /\ pc'[Main] = "flag" /\ cur[Main] \in hash
        /\ fields' = [fields EXCEPT ![cur[Main]] = "freed"]
        /\ hash' = hash /\ deleted' = deleted /\ cur' = cur /\ job' = job
        /\ \A x \in Jobbers : pc'[x] = pc[x]
    BY <1>0, <1>b, <1>c, <1>12 DEF DelFields
  <2>2. \A x \in Jobbers : pc[x] \in {"revive", "touch"} => cur[x] # cur[Main]
    BY <1>0, <1>a, <1>b, <2>1
  <2>3. NoJobDeletes' /\ UnknownUsers' /\ MainFound'
    BY <1>0, <2>1 DEF FInv, NoJobDeletes, UnknownUsers, MainFound
  <2>4. HalfWay'
    BY <1>0, <1>b, <2>1, <2>2 DEF FInv, HalfWay
  <2>5. FieldsMatchFlag'
    BY <1>0, <2>1 DEF FInv, FieldsMatchFlag
  <2>6. DumpReadsLiveFields'
    BY <1>0, <1>b, <2>1, <2>2 DEF FInv, DumpReadsLiveFields
  <2> QED  BY <2>3, <2>4, <2>5, <2>6 DEF FInv
<1>13. ASSUME NEW t \in Threads, DelFlag(t) PROVE FInv'
  <2>1. /\ t = Main /\ pc[Main] = "flag" /\ pc'[Main] = "unlock_user" /\ cur[Main] \in hash
        /\ deleted' = [deleted EXCEPT ![cur[Main]] = TRUE]
        /\ hash' = hash /\ fields' = fields /\ cur' = cur /\ job' = job
        /\ \A x \in Jobbers : pc'[x] = pc[x]
    BY <1>0, <1>b, <1>c, <1>13 DEF DelFlag
  <2>2. fields[cur[Main]] = "freed"
    BY <2>1 DEF FInv, HalfWay
  <2>3. NoJobDeletes' /\ UnknownUsers' /\ MainFound'
    BY <1>0, <2>1 DEF FInv, NoJobDeletes, UnknownUsers, MainFound
  <2>4. HalfWay'
    BY <1>0, <2>1 DEF FInv, HalfWay
  <2>5. FieldsMatchFlag'
    BY <1>0, <2>1, <2>2 DEF FInv, FieldsMatchFlag
  <2>6. DumpReadsLiveFields'
    BY <1>0, <2>1 DEF FInv, DumpReadsLiveFields
  <2> QED  BY <2>3, <2>4, <2>5, <2>6 DEF FInv
<1>14. ASSUME NEW t \in Threads, UndelFields(t) PROVE FInv'
  <2>1. /\ pc[t] = "undel" /\ pc'[t] = "revive" /\ cur[t] \in hash
        /\ fields' = [fields EXCEPT ![cur[t]] = "alloc"]
        /\ hash' = hash /\ deleted' = deleted /\ cur' = cur /\ job' = job
        /\ \A x \in Threads \ {t} : pc'[x] = pc[x]
    BY <1>0, <1>b, <1>14 DEF UndelFields
  <2>2. pc[Main] = "flag" => cur[Main] # cur[t]
    BY <1>0, <1>a, <1>b, <2>1
  <2>3. NoJobDeletes' /\ UnknownUsers' /\ MainFound'
    BY <1>0, <2>1 DEF FInv, NoJobDeletes, UnknownUsers, MainFound
  <2>4. HalfWay'
    BY <1>0, <1>b, <2>1, <2>2 DEF FInv, HalfWay
  <2>5. FieldsMatchFlag'
    BY <1>0, <2>1 DEF FInv, FieldsMatchFlag
  <2>6. DumpReadsLiveFields'
    BY <1>0, <1>b, <2>1, <2>2 DEF FInv, DumpReadsLiveFields
  <2> QED  BY <2>3, <2>4, <2>5, <2>6 DEF FInv
<1>15. ASSUME NEW t \in Threads, UndelFlag(t) PROVE FInv'
  <2>1. /\ pc[t] = "revive" /\ pc'[t] = (IF t = Main THEN "lock_user" ELSE "touch") /\ cur[t] \in hash
        /\ deleted' = [deleted EXCEPT ![cur[t]] = FALSE]
        /\ hash' = hash /\ fields' = fields /\ cur' = cur /\ job' = job
        /\ \A x \in Threads \ {t} : pc'[x] = pc[x]
    BY <1>0, <1>b, <1>15 DEF UndelFlag
  <2>2. fields[cur[t]] = "alloc"
    BY <2>1 DEF FInv, HalfWay
  <2>3. NoJobDeletes' /\ UnknownUsers' /\ MainFound'
    BY <1>0, <2>1 DEF FInv, NoJobDeletes, UnknownUsers, MainFound
  <2>4. HalfWay'
    BY <1>0, <2>1 DEF FInv, HalfWay
  <2>5. FieldsMatchFlag'
    BY <1>0, <2>1, <2>2 DEF FInv, FieldsMatchFlag
  <2>6. DumpReadsLiveFields'
    BY <1>0, <2>1, <2>2 DEF FInv, DumpReadsLiveFields
  <2> QED  BY <2>3, <2>4, <2>5, <2>6 DEF FInv
<1>16. ASSUME NEW t \in Jobbers, DumpCheck(t) PROVE Aside(t)
  <2>1. ~deleted[cur[t]] => fields[cur[t]] = "alloc"
    <3> SUFFICES ASSUME ~deleted[cur[t]] PROVE fields[cur[t]] = "alloc"
      OBVIOUS
    <3>1. pc[t] = "check_deleted" /\ cur[t] \in hash /\ cur[t] \in Ids /\ fields[cur[t]] # "none"
      BY <1>0, <1>b, <1>16 DEF DumpCheck, FInv, UnknownUsers
    <3>2. CASE fields[cur[t]] # "freed"
      BY <1>0, <3>1, <3>2
    <3>3. CASE fields[cur[t]] = "freed"
      <4>1. PICK x \in Threads : cur[x] = cur[t] /\ pc[x] \in {"flag", "revive"}
        BY <3>1, <3>3 DEF FInv, FieldsMatchFlag
      <4>2. pc[x] = "flag" /\ x # t
        BY <3>1, <3>3, <4>1 DEF FInv, HalfWay
      <4> QED  BY <1>0, <1>a, <3>1, <4>1, <4>2
    <3> QED  BY <3>2, <3>3
  <2> QED  BY <1>0, <1>c, <1>16, <2>1 DEF DumpCheck, Aside
<1>17. ASSUME NEW t \in Jobbers,
              \/ LockVector(t) \/ UnlockVector(t) \/ SelectLock(t) \/ SelectTarget(t)
              \/ SelectNext(t) \/ SelectFilter(t) \/ SelectFilled(t) \/ SelectUnlock(t)
              \/ Lock(t) \/ Wipe(t) \/ ScanNext(t) \/ Finish(t)
       PROVE  Aside(t)
  <2>1. CASE LockVector(t) \/ UnlockVector(t) \/ SelectLock(t) \/ SelectTarget(t)
    BY <1>0, <1>c, <2>1 DEF LockVector, UnlockVector, SelectLock, SelectTarget, Aside
  <2>2. CASE SelectNext(t) \/ SelectFilter(t) \/ SelectFilled(t) \/ SelectUnlock(t)
    BY <1>0, <1>c, <2>2 DEF SelectNext, SelectFilter, SelectFilled, SelectUnlock, Aside
  <2>3. CASE Lock(t) \/ Wipe(t) \/ ScanNext(t) \/ Finish(t)
    BY <1>0, <1>c, <2>3 DEF Lock, Wipe, ScanNext, Finish, Aside
  <2> QED  BY <1>17, <2>1, <2>2, <2>3
<1>18. CASE UNCHANGED vars
  BY <1>18 DEF vars, FInv, NoJobDeletes, UnknownUsers, HalfWay, MainFound, FieldsMatchFlag,
               DumpReadsLiveFields
<1> HIDE DEF Goto, store, users, locks, progress, Found
<1>19. CASE Next
  <2>1. FInv' \/ \E x \in Threads : Aside(x)
    BY <1>0, <1>19, <1>1, <1>2, <1>4, <1>5, <1>6, <1>7, <1>8, <1>9, <1>10, <1>11, <1>12,
       <1>13, <1>14, <1>15, <1>16, <1>17
       DEF Next, Request, MainStep, OnUser, JobStep
  <2> QED  BY <1>0, <2>1, AsideFields
<1> QED  BY <1>18, <1>19

\* Every reachable state keeps it when no cleanup is sent.
THEOREM FieldsInvariance == NoCleanup => (Spec => []FInv)
<1> SUFFICES ASSUME NoCleanup PROVE Spec => []FInv
  OBVIOUS
<1>1. ASSUME IInv, FInv, [Next]_vars PROVE FInv'
  BY <1>1, StepFields
<1> QED  BY <1>1, InitFields, Invariance, PTL DEF Spec

\* User::is_deleted tells whether the fields are freed, outside User::del and
\* User::undel, when no cleanup is sent.
THEOREM FlagTellsTheFields == NoCleanup => (Spec => []FieldsMatchFlag)
BY FieldsInvariance, PTL DEF FInv

\* A dump never writes freed fields (users.cc:264-270), when no cleanup is sent.
THEOREM DumpsReadLiveFields == NoCleanup => (Spec => []DumpReadsLiveFields)
BY FieldsInvariance, PTL DEF FInv

=============================================================================
