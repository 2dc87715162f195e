---------------------------- MODULE UsersHistory ----------------------------
(***************************************************************************)
(* UsersStore with two history variables, that no code step reads: for     *)
(* every job, the users present ever since it started, and the users       *)
(* present at some moment since then.                                      *)
(***************************************************************************)
EXTENDS UsersStore

VARIABLES always, ever

hvars == <<vars, always, ever>>

\* The users that a command could find: added and not deleted.
Present == {u \in hash \ InFlight : ~deleted[u]}

HInit ==
  /\ Init
  /\ always = [t \in Jobbers |-> {}]
  /\ ever = [t \in Jobbers |-> {}]

HNext ==
  /\ Next
  /\ always' = [t \in Jobbers |->
       IF pc'[t] = "free" THEN {}
       ELSE IF pc[t] = "free" THEN Present' ELSE always[t] \cap Present']
  /\ ever' = [t \in Jobbers |->
       IF pc'[t] = "free" THEN {}
       ELSE IF pc[t] = "free" THEN Present' ELSE ever[t] \cup Present']

HSpec == HInit /\ [][HNext]_hvars

-----------------------------------------------------------------------------
Dumping(t) == job[t] = "dump"

\* A dump is the listing job of Roster: the users it has written when its
\* loop is over are its report (Users::dump, Users::dump_bin).  It keeps the
\* promise although it locks vector for two short sections only, and writes
\* its copy while users come and go.
DumpRoster == INSTANCE Roster WITH
  present <- Present,
  phase   <- [t \in Jobbers |-> IF ~Dumping(t) THEN "idle"
                                ELSE IF Done(t) THEN "reported" ELSE "running"],
  always  <- [t \in Jobbers |-> IF Dumping(t) THEN always[t] ELSE {}],
  ever    <- [t \in Jobbers |-> IF Dumping(t) THEN ever[t] ELSE {}],
  report  <- [t \in Jobbers |-> IF Dumping(t) /\ Done(t) THEN out[t] ELSE <<>>]

DumpKeepsPromise == DumpRoster!Spec

\* A scan handles each user of its vector that nobody deletes meanwhile,
\* once, in the order of the vector: no user is skipped or met twice because
\* other threads add users, select into the set or delete while it runs.
ScanCoversVector ==
  \A t \in Jobbers : job[t] \in Scans /\ Done(t) =>
    /\ IsInjective(out[t])
    /\ always[t] \cap Range(list[arg[t]]) \subseteq Range(out[t])
    /\ \E f \in [DOMAIN out[t] -> DOMAIN list[arg[t]]] :
         /\ \A i \in DOMAIN out[t] : out[t][i] = list[arg[t]][f[i]]
         /\ \A i, j \in DOMAIN out[t] : i < j => f[i] < f[j]

\* A count, a top or a report walks the main vector without a vector_update
\* (users.cc:53-69): of the users that exist from its start to its end, it
\* misses only those parked in vector_new_users, because the vector was locked
\* when they came, and never one that an earlier job had to move.
CountMissesOnlyParked ==
  \A t \in Jobbers : job[t] = "visit" /\ arg[t] = Vector /\ Done(t)
    => always[t] \subseteq Range(out[t]) \cup Range(list[NewUsers])

\* A dump undeletes users that were deleted since it made its copy
\* (users.cc:268), and no others: except by a command of the event loop, a
\* user that was deleted before every dump under way began stays deleted.
DumpRevivesItsOwn ==
  [][\A u \in Ids : deleted[u] /\ ~deleted'[u] /\ pc[Main] = pc'[Main]
       => \E t \in Jobbers : Dumping(t) /\ u \in ever[t]]_hvars

=============================================================================
