---------------------------- MODULE GroupsProofs ----------------------------
(***************************************************************************)
(* Theorems about Groups, for any users, names, commands and threads:      *)
(* - a group added by name is nobody's: the ids of the groups, of the      *)
(*   group set under way and of the users stay below index_counter,        *)
(*   through deletes, clears, dumps and restores;                          *)
(* - every variable keeps its type, and every user is in a group whose id  *)
(*   is joined from ids that were given out, on both servers;              *)
(* - a slave that runs follows the master: the datagrams under way lead it *)
(*   to the groups and the users of the master, but for those that faults  *)
(*   of the network were about;                                            *)
(* - the names of the groups come back from the id they were joined to.    *)
(***************************************************************************)
EXTENDS Groups, SequenceTheorems, WellFoundedInduction, TLAPS

-----------------------------------------------------------------------------
\* The inductive invariant, about the master.

\* Groups without masks, whose ids have a bound.
Plain(groups) ==
  /\ DOMAIN groups \subseteq Names
  /\ groups \in [DOMAIN groups -> Group]
  /\ \A n \in DOMAIN groups : groups[n].mask = 0

Below(groups, bound) == \A n \in DOMAIN groups : groups[n].id < bound

\* What is left of a scenario is one.
LeftOK == left \in [commands : Nat, threads : Nat, restarts : Nat, faults : Nat, slave : BOOLEAN,
                    given : SUBSET Group]

\* The variables are functions of the servers.
Shapes ==
  /\ list    = [s \in Servers |-> list[s]]
  /\ counter = [s \in Servers |-> counter[s]]
  /\ member  = [s \in Servers |-> member[s]]
  /\ loop    = [s \in Servers |-> loop[s]]
  /\ job     = [s \in Servers |-> job[s]]
  /\ loose   = [s \in Servers |-> loose[s]]

\* A list of the users' ids is a function of the users, and a job a record;
\* that of a dump has such a list.
FrameOK ==
  /\ member[Master] = [u \in Users |-> member[Master][u]]
  /\ disk.member = [u \in Users |-> disk.member[u]]
  /\ "do" \in DOMAIN job[Master]
  /\ job[Master].do = "dump" =>
       LET j == job[Master]
       IN  j = [do |-> "dump", at |-> j.at, list |-> j.list,
                member |-> [u \in Users |-> j.member[u]], loose |-> j.loose, left |-> j.left]

\* The ids in use are below index_counter.
CountOK ==
  /\ counter[Master] \in Nat /\ counter[Master] > 0
  /\ Plain(list[Master]) /\ Below(list[Master], counter[Master])
  /\ \A u \in Users \ stray :
       member[Master][u] \in Nat /\ member[Master][u] < counter[Master]

\* group set stores an id that was in use; a deletion since does not matter.
LoopOK ==
  loop[Master] # Idle =>
    /\ loop[Master].id \in Nat /\ loop[Master].id < counter[Master]
    /\ loop[Master].command.user \in Users

\* The dump that is written, and the last one.
DumpsOK ==
  /\ Plain(disk.list) /\ \E bound \in Nat : Below(disk.list, bound)
  /\ job[Master].do = "dump" =>
       Plain(job[Master].list) /\ \E bound \in Nat : Below(job[Master].list, bound)

IInv == LeftOK /\ Shapes /\ FrameOK /\ (~mixed => CountOK /\ LoopOK /\ DumpsOK)

-----------------------------------------------------------------------------
USE GroupsAssumption

\* Numbers that have a bound have a greatest one.
LEMMA GreatestNatural ==
  ASSUME NEW S, S \subseteq Nat, S # {}, NEW bound \in Nat, \A x \in S : x < bound
  PROVE  Max(S) \in S /\ \A x \in S : x <= Max(S)
<1> DEFINE Bounds == {n \in Nat : \A x \in S : x <= n}
<1>1. Bounds \subseteq Nat /\ Bounds # {}
  <2>1. bound \in Bounds
    OBVIOUS
  <2> QED  BY <2>1
<1>2. \E n \in Bounds : \A k \in Bounds : <<k, n>> \notin OpToRel(<, Nat)
  <2> HIDE DEF Bounds
  <2> QED  BY <1>1, WFMin, NatLessThanWellFounded
<1>3. PICK n \in Bounds : \A k \in Bounds : ~(k < n)
  BY <1>2 DEF OpToRel
<1>4. n \in S
  <2>1. CASE n = 0
    <3>1. PICK x \in S : TRUE
      OBVIOUS
    <3>2. x <= 0 /\ x \in Nat
      BY <2>1
    <3> QED  BY <2>1, <3>2
  <2>2. CASE n > 0 /\ n \notin S
    <3>1. n - 1 \in Bounds /\ n - 1 < n
      BY <2>2
    <3> QED  BY <1>3, <3>1
  <2> QED  BY <2>1, <2>2
<1>5. \E x \in S : \A y \in S : x >= y
  BY <1>4
<1> QED  BY <1>5 DEF Max

\* The id of groups that have no masks is that of the first one named.
LEMMA FirstNamed ==
  ASSUME NEW groups, Plain(groups), NEW names \in Seq(Names), names # <<>>,
         FilterParse(groups, names) # Unknown
  PROVE  \E n \in DOMAIN groups : FilterParse(groups, names) = groups[n].id
<1> DEFINE I == {i \in 1 .. Len(names) : names[i] \notin DOMAIN groups \/ groups[names[i]].mask = 0}
<1>1. I = 1 .. Len(names) /\ 1 \in I
  BY DEF Plain
<1>2. Min(I) = 1
  <2>1. \E x \in I : \A y \in I : x =< y
    BY <1>1
  <2>2. Min(I) \in I /\ \A y \in I : Min(I) =< y
    BY <2>1 DEF Min
  <2> QED  BY <1>1, <2>2
<1>3. Deciding(groups, names) = 1
  BY <1>1, <1>2 DEF Deciding, SelectInSeq
<1> QED  BY <1>3 DEF FilterParse

-----------------------------------------------------------------------------
\* Init and the steps.

\* The invariant holds at first.
LEMMA InitInv == Init => IInv
<1> SUFFICES ASSUME Init PROVE IInv
  OBVIOUS
<1>1. Shapes
  BY DEF Init, Shapes
<1>2. FrameOK
  BY DEF Init, FrameOK, Servers, Idle, Alone
<1>3. CountOK
  BY DEF Init, CountOK, Plain, Below, Servers, Empty, Alone, Undef
<1>4. LoopOK
  BY DEF Init, LoopOK, Servers
<1>5. DumpsOK
  BY DEF Init, DumpsOK, Plain, Below, Empty, Servers, Idle
<1>6. LeftOK
  BY DEF Init, LeftOK
<1> QED  BY <1>1, <1>2, <1>3, <1>4, <1>5, <1>6 DEF IInv

\* No step leaves less than nothing of the scenario.
LEMMA StepLeft == LeftOK /\ [Next]_vars => LeftOK'
<1> SUFFICES ASSUME LeftOK, [Next]_vars PROVE LeftOK'
  OBVIOUS
<1> USE DEF LeftOK
<1>1. ASSUME NEW c, Client(c) PROVE LeftOK'
  <2>1. left.commands \in Nat /\ left.commands > 0 /\ left.threads \in Nat
    BY <1>1 DEF Client
  <2>2. CASE Threaded(c)
    <3>1. left.threads > 0 /\ left' = [left EXCEPT !.commands = @ - 1, !.threads = @ - 1]
      BY <1>1, <2>2 DEF Client
    <3>2. left.commands - 1 \in Nat /\ left.threads - 1 \in Nat
      BY <2>1, <3>1
    <3> QED  BY <3>1, <3>2
  <2>3. CASE ~Threaded(c)
    <3>1. left' = [left EXCEPT !.commands = @ - 1, !.threads = @]
      BY <1>1, <2>3 DEF Client
    <3>2. left.commands - 1 \in Nat
      BY <2>1
    <3> QED  BY <3>1, <3>2
  <2> QED  BY <2>2, <2>3
<1>2. ASSUME NEW k, Receive(k) PROVE LeftOK'
  BY <1>2 DEF Receive
<1>12. ASSUME NEW k, Crash(k) PROVE LeftOK'
  <2>1. /\ k > 1 => left.faults > 0
        /\ left' = [left EXCEPT !.slave = FALSE, !.faults = IF k > 1 THEN @ - 1 ELSE @]
    BY <1>12 DEF Crash
  <2>2. left.faults \in Nat /\ (IF k > 1 THEN left.faults - 1 ELSE left.faults) \in Nat
    BY <2>1
  <2> QED  BY <2>1, <2>2
<1>3. CASE Lose \/ Double
  <2>1. left.faults > 0 /\ left' = [left EXCEPT !.faults = @ - 1]
    BY <1>3 DEF Lose, Double
  <2>2. left.faults - 1 \in Nat
    BY <2>1
  <2> QED  BY <2>1, <2>2
<1>4. CASE StoreMaster \/ StoreReplica
  BY <1>4 DEF StoreMaster, StoreReplica, Store
<1>5. CASE Thread(Master)
  BY <1>5 DEF Thread, DelGroup, ClearGroups, UngroupStep, UngroupEnd
<1>6. CASE DumpGroups
  <2>1. left.threads - 1 \in Nat /\ left' = [left EXCEPT !.threads = @ - 1]
    BY <1>6 DEF DumpGroups
  <2> QED  BY <2>1
<1>7. CASE Restart
  <2>1. left.restarts - 1 \in Nat /\ left' = [left EXCEPT !.restarts = @ - 1]
    BY <1>7 DEF Restart
  <2> QED  BY <2>1
<1>8. ASSUME NEW u \in Users, DumpUser(u) PROVE LeftOK'
  BY <1>8 DEF DumpUser
<1>9. CASE DumpEnd \/ UNCHANGED vars
  BY <1>9 DEF DumpEnd, vars
<1> QED  BY <1>1, <1>2, <1>12, <1>3, <1>4, <1>5, <1>6, <1>7, <1>8, <1>9 DEF Next

\* No step changes the shape of a variable.
LEMMA StepShapes == Shapes /\ [Next]_vars => Shapes'
<1> SUFFICES ASSUME Shapes, [Next]_vars PROVE Shapes'
  OBVIOUS
<1> USE DEF Shapes
<1>1. ASSUME NEW s \in Servers, NEW c, Execute(s, c) PROVE Shapes'
  <2>1. CASE Add(s, c)
    BY <2>1 DEF Add
  <2>2. CASE Delete(s, c) \/ Clear(s, c)
    BY <2>2 DEF Delete, Clear
  <2>3. CASE Lookup(s, c)
    BY <2>3 DEF Lookup
  <2>4. CASE Reset(s, c)
    BY <2>4 DEF Reset
  <2> QED  BY <1>1, <2>1, <2>2, <2>3, <2>4 DEF Execute
<1>2. ASSUME NEW c, Client(c) PROVE Shapes'
  BY <1>1, <1>2 DEF Client, Servers
<1>3. ASSUME NEW k, Receive(k) PROVE Shapes'
  BY <1>1, <1>3 DEF Receive, Servers
<1>4. CASE Lose \/ Double \/ \E k \in DOMAIN net : Crash(k)
  BY <1>4 DEF Lose, Double, Crash
<1>5. CASE StoreMaster \/ StoreReplica
  BY <1>5 DEF StoreMaster, StoreReplica, Store
<1>6. CASE Thread(Master)
  BY <1>6 DEF Thread, DelGroup, ClearGroups, UngroupStep, Ungroup, UngroupEnd, Walks
<1>7. ASSUME NEW u \in Users, DumpUser(u) PROVE Shapes'
  BY <1>7 DEF DumpUser, Walks
<1>8. CASE DumpGroups \/ DumpEnd
  BY <1>8 DEF DumpGroups, DumpEnd, Walks
<1>9. CASE Restart
  BY <1>9 DEF Restart
<1>10. CASE UNCHANGED vars
  BY <1>10 DEF vars
<1> QED
  BY <1>2, <1>3, <1>4, <1>5, <1>6, <1>7, <1>8, <1>9, <1>10 DEF Next

\* What the invariant is about.
AtMaster == <<list[Master], counter[Master], member[Master], loop[Master], job[Master],
              stray, disk, mixed>>

\* What the slave and the network do leaves the master alone.
LEMMA SlaveApart ==
  ASSUME Shapes,
         \/ \E k \in DOMAIN net : Receive(k) \/ Crash(k)
         \/ Lose \/ Double \/ StoreReplica \/ UNCHANGED vars
  PROVE  UNCHANGED AtMaster
<1> USE DEF AtMaster, Shapes, Servers, Settling
<1>1. ASSUME NEW c, Execute(Replica, c), UNCHANGED mixed PROVE UNCHANGED AtMaster
  <2>1. CASE Add(Replica, c)
    BY <1>1, <2>1 DEF Add
  <2>2. CASE Delete(Replica, c) \/ Clear(Replica, c)
    BY <1>1, <2>2 DEF Delete, Clear
  <2>3. CASE Lookup(Replica, c)
    BY <1>1, <2>3 DEF Lookup
  <2>4. CASE Reset(Replica, c)
    BY <1>1, <2>4 DEF Reset
  <2> QED  BY <1>1, <2>1, <2>2, <2>3, <2>4 DEF Execute
<1>2. ASSUME NEW k, Receive(k) PROVE UNCHANGED AtMaster
  BY <1>1, <1>2 DEF Receive
<1>3. CASE Lose \/ Double \/ \E k \in DOMAIN net : Crash(k)
  BY <1>3 DEF Lose, Double, Crash
<1>4. CASE StoreReplica
  BY <1>4 DEF StoreReplica, Store
<1>5. CASE UNCHANGED vars
  BY <1>5 DEF vars
<1> QED  BY <1>2, <1>3, <1>4, <1>5

\* The invariant is about the master only.
LEMMA SameMaster ==
  ASSUME IInv, LeftOK', Shapes', UNCHANGED AtMaster
  PROVE  IInv'
<1>1. FrameOK'
  BY DEF IInv, FrameOK, AtMaster
<1>2. ASSUME ~mixed' PROVE CountOK' /\ LoopOK' /\ DumpsOK'
  BY <1>2 DEF IInv, CountOK, LoopOK, DumpsOK, Plain, Below, AtMaster
<1> QED  BY <1>1, <1>2 DEF IInv

-----------------------------------------------------------------------------
\* The steps of the master.

\* A list of groups to which a name with an id below the bound is added.
LEMMA InsertedPlain ==
  ASSUME NEW groups, NEW bound \in Nat, Plain(groups), Below(groups, bound),
         NEW n \in Names, NEW g \in Group, g.mask = 0, g.id < bound
  PROVE  /\ Plain(Inserted(groups, n, g)) /\ Below(Inserted(groups, n, g), bound)
         /\ \A m \in DOMAIN groups : m \in DOMAIN Inserted(groups, n, g)
                                     /\ Inserted(groups, n, g)[m] = groups[m]
         /\ DOMAIN Inserted(groups, n, g) = DOMAIN groups \cup {n}
         /\ n \notin DOMAIN groups => Inserted(groups, n, g)[n] = g
<1>1. CASE n \in DOMAIN groups
  BY <1>1 DEF Inserted, Plain, Below
<1>2. CASE n \notin DOMAIN groups
  <2>1. /\ DOMAIN Inserted(groups, n, g) = DOMAIN groups \cup {n}
        /\ \A m \in DOMAIN groups : Inserted(groups, n, g)[m] = groups[m]
        /\ Inserted(groups, n, g)[n] = g
        /\ Inserted(groups, n, g) = [m \in DOMAIN groups \cup {n} |-> IF m = n THEN g ELSE groups[m]]
    BY <1>2 DEF Inserted
  <2>2. Plain(Inserted(groups, n, g)) /\ Below(Inserted(groups, n, g), bound)
    BY <2>1 DEF Plain, Below
  <2> QED  BY <2>1, <2>2
<1> QED  BY <1>1, <1>2

\* What an add to the master does; the group of a new name is new.
LEMMA AddInv ==
  ASSUME IInv, LeftOK', Shapes', NEW c \in Commands, Client(c), Add(Master, c)
  PROVE  IInv' /\ (counter'[Master] # counter[Master] /\ ~mixed => Fresh(Master))
<1> USE DEF Servers
<1> DEFINE byName == c.id = Undef
           g      == IF byName THEN [id |-> counter[Master], mask |-> 0] ELSE [id |-> c.id, mask |-> c.mask]
           fresh  == c.name \notin DOMAIN list[Master]
<1>1. c \in {[do |-> "add", name |-> n, id |-> h.id, mask |-> h.mask] : n \in Names, h \in left.given}
  BY DEF Add, Commands
<1>2. c.name \in Names /\ c.id \in Nat /\ c.mask \in Nat
  <2>1. left.given \subseteq Group
    BY DEF IInv, LeftOK
  <2> QED  BY <1>1, <2>1 DEF Group, GroupIds
<1>3. /\ list'[Master] = Inserted(list[Master], c.name, g)
      /\ counter'[Master] = IF byName /\ fresh THEN counter[Master] + 1 ELSE counter[Master]
      /\ UNCHANGED <<member, loop, job, disk, stray>>
  BY DEF Add, IInv, Shapes
<1>4. FrameOK'
  BY <1>3 DEF IInv, FrameOK
<1> HIDE DEF byName, g, fresh
<1>5. ASSUME ~mixed' PROVE CountOK' /\ LoopOK' /\ DumpsOK'
  <2>0. ~mixed /\ ~(c.id # Undef /\ (c.id >= counter[Master] \/ c.mask # 0))
    BY <1>5 DEF Client, Add
  <2>2. CountOK /\ LoopOK /\ DumpsOK
    BY <2>0 DEF IInv
  <2>1. ~byName => c.id < counter[Master] /\ c.mask = 0
    BY <1>2, <2>0, <2>2 DEF byName, CountOK
  <2>3. /\ counter'[Master] \in Nat /\ counter'[Master] >= counter[Master]
        /\ Plain(list[Master]) /\ Below(list[Master], counter'[Master])
    BY <1>3, <2>2 DEF CountOK, Below, Plain, Group, GroupIds
  <2>4. CASE byName => fresh
    <3>1. g \in Group /\ g.mask = 0 /\ g.id < counter'[Master]
      BY <1>2, <1>3, <2>1, <2>2, <2>4 DEF g, Group, GroupIds, CountOK
    <3>2. Plain(list'[Master]) /\ Below(list'[Master], counter'[Master])
      <4> DEFINE bound == counter'[Master]
      <4>1. bound \in Nat /\ Plain(list[Master]) /\ Below(list[Master], bound)
            /\ c.name \in Names /\ g \in Group /\ g.mask = 0 /\ g.id < bound
        BY <1>2, <2>3, <3>1
      <4> HIDE DEF bound
      <4>2. Plain(Inserted(list[Master], c.name, g)) /\ Below(Inserted(list[Master], c.name, g), bound)
        BY <4>1, InsertedPlain
      <4> QED  BY <1>3, <4>2 DEF bound
    <3>3. CountOK'
      BY <1>3, <2>2, <2>3, <3>2 DEF CountOK, Plain, Below
    <3> QED  BY <1>3, <2>2, <2>3, <3>3 DEF LoopOK, DumpsOK, CountOK, Plain, Below
  <2>5. CASE byName /\ ~fresh
    <3>1. list'[Master] = list[Master] /\ counter'[Master] = counter[Master]
      BY <1>3, <2>2, <2>5 DEF Inserted, fresh, CountOK, Plain
    <3> QED  BY <1>3, <2>2, <3>1 DEF CountOK, LoopOK, DumpsOK, Plain, Below
  <2> QED  BY <2>4, <2>5
<1>6. ASSUME counter'[Master] # counter[Master], ~mixed PROVE Fresh(Master)
  <2>1. byName /\ fresh
    BY <1>3, <1>6
  <2>2. CountOK
    BY <1>6 DEF IInv
  <2>3. g \in Group /\ g.mask = 0 /\ g.id = counter[Master]
    BY <2>1, <2>2 DEF g, Group, GroupIds, CountOK
  <2>4. \A n \in DOMAIN list'[Master] \ DOMAIN list[Master] : list'[Master][n].id = counter[Master]
    BY <1>3, <2>1, <2>3 DEF Inserted, fresh
  <2>5. /\ \A m \in DOMAIN list[Master] : list[Master][m].id # counter[Master]
        /\ \A u \in Users \ stray : member[Master][u] # counter[Master]
    BY <2>2 DEF CountOK, Below, Plain, Group, GroupIds
  <2> QED  BY <2>4, <2>5 DEF Fresh
<1> QED  BY <1>4, <1>5, <1>6 DEF IInv

\* The other commands of a client: a thread begins, group set looks its groups
\* up, or a user has no group any more.
LEMMA CommandInv ==
  ASSUME IInv, LeftOK', Shapes', NEW c \in Commands, Client(c),
         Delete(Master, c) \/ Clear(Master, c) \/ Lookup(Master, c) \/ Reset(Master, c)
  PROVE  IInv' /\ counter'[Master] = counter[Master]
<1> USE DEF Servers
<1>1. ~mixed' => ~mixed
  BY DEF Client
<1>2. CASE Delete(Master, c) \/ Clear(Master, c)
  <2>1. /\ UNCHANGED <<list, counter, member, loop, disk, stray>>
        /\ "do" \in DOMAIN job'[Master] /\ job'[Master].do # "dump"
    BY <1>2 DEF Delete, Clear, IInv, Shapes
  <2> QED  BY <1>1, <2>1 DEF IInv, FrameOK, CountOK, LoopOK, DumpsOK
<1>3. CASE Lookup(Master, c)
  <2>1. /\ UNCHANGED <<list, counter, member, job, disk, stray>>
        /\ c.do = "set" /\ c.names # <<>>
    BY <1>3 DEF Lookup
  <2>2. c.user \in Users /\ c.names \in Seq(Names)
    <3>1. c \in [do : {"set"}, user : Users, names : Chosen]
      BY <2>1 DEF Commands
    <3> QED  BY <3>1
  <2>3. ASSUME ~mixed' PROVE CountOK' /\ LoopOK' /\ DumpsOK'
    <3>1. CountOK /\ LoopOK /\ DumpsOK
      BY <1>1, <2>3 DEF IInv
    <3>2. CountOK' /\ DumpsOK'
      BY <2>1, <3>1 DEF CountOK, DumpsOK, Plain, Below
    <3> DEFINE id == FilterParse(list[Master], c.names)
    <3>3. CASE id = Unknown
      <4>1. UNCHANGED loop
        BY <1>3, <3>3 DEF Lookup, Refused
      <4> QED  BY <2>1, <3>2, <3>1, <4>1 DEF LoopOK
    <3>4. CASE id # Unknown
      <4>1. \E n \in DOMAIN list[Master] : id = list[Master][n].id
        BY <2>1, <2>2, <3>1, <3>4, FirstNamed DEF CountOK
      <4>2. id \in Nat /\ id < counter[Master]
        BY <3>1, <4>1 DEF CountOK, Plain, Below, Group, GroupIds
      <4>3. loop'[Master] = [do |-> "set", command |-> c, id |-> id]
        BY <1>3, <3>4 DEF Lookup, Refused, IInv, Shapes
      <4>4. loop'[Master].id = id /\ loop'[Master].command = c
        BY <4>3
      <4> QED  BY <2>1, <2>2, <3>2, <4>2, <4>4 DEF LoopOK
    <3> QED  BY <3>2, <3>3, <3>4
  <2>4. FrameOK'
    BY <2>1 DEF IInv, FrameOK
  <2> QED  BY <2>1, <2>3, <2>4 DEF IInv
<1>4. CASE Reset(Master, c)
  <2>1. /\ UNCHANGED <<list, counter, loop, job, disk>>
        /\ member'[Master] = [member[Master] EXCEPT ![c.user] = Undef]
        /\ stray' = stray \ {c.user}
    BY <1>4 DEF Reset, Settling, IInv, Shapes
  <2>2. FrameOK'
    BY <2>1 DEF IInv, FrameOK
  <2>3. ASSUME ~mixed' PROVE CountOK' /\ LoopOK' /\ DumpsOK'
    BY <1>1, <2>1, <2>3 DEF IInv, FrameOK, CountOK, LoopOK, DumpsOK, Plain, Below, Undef
  <2> QED  BY <2>1, <2>2, <2>3 DEF IInv
<1> QED  BY <1>2, <1>3, <1>4

\* group set stores the id it has looked up.
LEMMA StoreInv ==
  ASSUME IInv, LeftOK', Shapes', StoreMaster
  PROVE  IInv' /\ counter'[Master] = counter[Master]
<1> USE DEF Servers
<1> DEFINE u == loop[Master].command.user
<1>1. /\ UNCHANGED <<list, counter, job, disk, mixed>>
      /\ loop[Master] # Idle /\ loop'[Master] = Idle
      /\ member'[Master] = [member[Master] EXCEPT ![u] = loop[Master].id]
      /\ stray' = stray \ {u}
  BY DEF StoreMaster, Store, Ready, Settling, IInv, Shapes
<1> HIDE DEF u
<1>2. FrameOK'
  BY <1>1 DEF IInv, FrameOK
<1>3. ASSUME ~mixed' PROVE CountOK' /\ LoopOK' /\ DumpsOK'
  <2>1. CountOK /\ LoopOK /\ DumpsOK
    BY <1>1, <1>3 DEF IInv
  <2>2. loop[Master].id \in Nat /\ loop[Master].id < counter[Master] /\ u \in Users
    BY <1>1, <2>1 DEF LoopOK, u
  <2>3. \A v \in Users \ stray' :
          member'[Master][v] \in Nat /\ member'[Master][v] < counter[Master]
    BY <1>1, <2>1, <2>2 DEF IInv, FrameOK, CountOK
  <2> QED  BY <1>1, <2>1, <2>3 DEF CountOK, LoopOK, DumpsOK, Plain, Below
<1> QED  BY <1>1, <1>2, <1>3 DEF IInv

\* A thread of groups delete or groups clear.
LEMMA ThreadInv ==
  ASSUME IInv, LeftOK', Shapes', Thread(Master)
  PROVE  IInv' /\ counter'[Master] = counter[Master]
<1> USE DEF Servers
<1>1. CASE DelGroup(Master) \/ ClearGroups(Master)
  <2>1. /\ UNCHANGED <<counter, member, loop, disk, mixed, stray>>
        /\ "do" \in DOMAIN job'[Master] /\ job'[Master].do # "dump"
    BY <1>1 DEF DelGroup, ClearGroups, Walks, Idle, IInv, Shapes
  <2>2. \/ list'[Master] = list[Master]
        \/ list'[Master] = Empty
        \/ list'[Master] = [n \in DOMAIN list[Master] \ {job[Master].name} |-> list[Master][n]]
    BY <1>1 DEF DelGroup, ClearGroups, Restrict, IInv, Shapes
  <2>3. FrameOK'
    BY <2>1 DEF IInv, FrameOK
  <2>4. ASSUME ~mixed' PROVE CountOK' /\ LoopOK' /\ DumpsOK'
    <3>1. CountOK /\ LoopOK /\ DumpsOK
      BY <2>1, <2>4 DEF IInv
    <3>2. Plain(list'[Master]) /\ Below(list'[Master], counter[Master])
      BY <2>2, <3>1 DEF CountOK, Plain, Below, Empty
    <3> QED  BY <2>1, <3>1, <3>2 DEF CountOK, LoopOK, DumpsOK
  <2> QED  BY <2>1, <2>3, <2>4 DEF IInv
<1>2. ASSUME NEW u \in Users, UngroupStep(Master, u)
      PROVE  IInv' /\ counter'[Master] = counter[Master]
  <2>1. UNCHANGED <<list, counter, loop, disk, mixed>>
    BY <1>2 DEF UngroupStep
  <2>2. "do" \in DOMAIN job'[Master] /\ job'[Master].do # "dump"
    BY <1>2 DEF UngroupStep, Walks, IInv, Shapes, FrameOK
  <2>3. \/ member'[Master] = member[Master] /\ stray' = stray
        \/ /\ member'[Master] = [member[Master] EXCEPT ![u] = Undef]
           /\ stray' = stray \ {u}
    BY <1>2 DEF UngroupStep, Ungroup, Settling, IInv, Shapes
  <2>4. FrameOK'
    BY <2>1, <2>2, <2>3 DEF IInv, FrameOK
  <2>5. ASSUME ~mixed' PROVE CountOK' /\ LoopOK' /\ DumpsOK'
    <3>1. CountOK /\ LoopOK /\ DumpsOK
      BY <2>1, <2>5 DEF IInv
    <3>2. CountOK'
      BY <2>1, <2>3, <3>1 DEF IInv, FrameOK, CountOK, Undef
    <3> QED  BY <2>1, <2>2, <3>1, <3>2 DEF LoopOK, DumpsOK
  <2> QED  BY <2>1, <2>4, <2>5 DEF IInv
<1>3. CASE UngroupEnd(Master)
  <2>1. /\ UNCHANGED <<list, counter, member, loop, disk, mixed, stray>>
        /\ "do" \in DOMAIN job'[Master] /\ job'[Master].do # "dump"
    BY <1>3 DEF UngroupEnd, Walks, Idle, IInv, Shapes
  <2> QED  BY <2>1 DEF IInv, FrameOK, CountOK, LoopOK, DumpsOK
<1> QED  BY <1>1, <1>2, <1>3 DEF Thread

\* A dump, which keeps the groups it has begun with.
LEMMA DumpInv ==
  ASSUME IInv, LeftOK', Shapes', DumpGroups \/ (\E u \in Users : DumpUser(u)) \/ DumpEnd
  PROVE  IInv' /\ counter'[Master] = counter[Master]
<1> USE DEF Servers
<1>1. CASE DumpGroups
  <2>1. /\ UNCHANGED <<list, counter, member, loop, disk, mixed, stray>>
        /\ job'[Master] = [do |-> "dump", at |-> "users", list |-> list[Master],
                           member |-> Alone, loose |-> {}, left |-> Users]
    BY <1>1 DEF DumpGroups, Walks, IInv, Shapes
  <2>2. FrameOK'
    <3> DEFINE j == job'[Master]
    <3>1. /\ "do" \in DOMAIN j
          /\ j = [do |-> "dump", at |-> j.at, list |-> j.list,
                  member |-> [u \in Users |-> j.member[u]], loose |-> j.loose, left |-> j.left]
      <4>1. /\ j.do = "dump" /\ j.at = "users" /\ j.list = list[Master] /\ j.member = Alone
            /\ j.loose = {} /\ j.left = Users /\ "do" \in DOMAIN j
        BY <2>1
      <4>2. [u \in Users |-> j.member[u]] = Alone
        BY <4>1 DEF Alone
      <4> HIDE DEF j
      <4> QED  BY <2>1, <4>1, <4>2 DEF j
    <3> QED  BY <2>1, <3>1 DEF IInv, FrameOK
  <2>3. job'[Master].list = list[Master]
    BY <2>1
  <2>4. ASSUME ~mixed' PROVE CountOK' /\ LoopOK' /\ DumpsOK'
    <3>1. CountOK /\ LoopOK /\ DumpsOK
      BY <2>1, <2>4 DEF IInv
    <3>2. Plain(list[Master]) /\ Below(list[Master], counter[Master]) /\ counter[Master] \in Nat
      BY <3>1 DEF CountOK
    <3>3. DumpsOK'
      BY <2>1, <2>3, <3>1, <3>2 DEF DumpsOK
    <3> QED  BY <2>1, <3>1, <3>3 DEF CountOK, LoopOK
  <2> QED  BY <2>1, <2>2, <2>4 DEF IInv
<1>2. ASSUME NEW u \in Users, DumpUser(u)
      PROVE  IInv' /\ counter'[Master] = counter[Master]
  <2> DEFINE j == job[Master]
             k == [j EXCEPT !.left = @ \ {u}, !.member[u] = member[Master][u],
                            !.loose = IF u \in loose[Master] THEN @ \cup {u} ELSE @]
  <2>1. /\ UNCHANGED <<list, counter, member, loop, disk, mixed, stray>>
        /\ j.do = "dump" /\ job'[Master] = k
    BY <1>2 DEF DumpUser, Walks, IInv, Shapes
  <2>2. j = [do |-> "dump", at |-> j.at, list |-> j.list,
             member |-> [v \in Users |-> j.member[v]], loose |-> j.loose, left |-> j.left]
    BY <2>1 DEF IInv, FrameOK
  <2> HIDE DEF j
  <2>3. /\ k = [do |-> "dump", at |-> k.at, list |-> k.list,
                member |-> [v \in Users |-> k.member[v]], loose |-> k.loose, left |-> k.left]
        /\ k.list = j.list
    <3>1. k = [do |-> "dump", at |-> j.at, list |-> j.list,
               member |-> [v \in Users |-> IF v = u THEN member[Master][u] ELSE j.member[v]],
               loose |-> IF u \in loose[Master] THEN j.loose \cup {u} ELSE j.loose,
               left |-> j.left \ {u}]
      <4> DEFINE m == [v \in Users |-> j.member[v]]
                 r == [do |-> "dump", at |-> j.at, list |-> j.list, member |-> m,
                       loose |-> j.loose, left |-> j.left]
      <4>1. k = [r EXCEPT !.left = @ \ {u}, !.member[u] = member[Master][u],
                          !.loose = IF u \in loose[Master] THEN @ \cup {u} ELSE @]
        BY <2>2
      <4>2. [m EXCEPT ![u] = member[Master][u]]
              = [v \in Users |-> IF v = u THEN member[Master][u] ELSE j.member[v]]
        OBVIOUS
      <4> HIDE DEF k, m
      <4>3. k = [do |-> "dump", at |-> j.at, list |-> j.list,
                 member |-> [m EXCEPT ![u] = member[Master][u]],
                 loose |-> IF u \in loose[Master] THEN j.loose \cup {u} ELSE j.loose,
                 left |-> j.left \ {u}]
        BY <4>1
      <4> QED  BY <4>2, <4>3
    <3> HIDE DEF k
    <3> QED  BY <3>1
  <2> HIDE DEF k
  <2>4. FrameOK'
    BY <2>1, <2>3 DEF IInv, FrameOK
  <2>5. ASSUME ~mixed' PROVE CountOK' /\ LoopOK' /\ DumpsOK'
    <3>1. CountOK /\ LoopOK /\ DumpsOK
      BY <2>1, <2>5 DEF IInv
    <3>2. DumpsOK'
      BY <2>1, <2>3, <3>1 DEF DumpsOK, j
    <3> QED  BY <2>1, <3>1, <3>2 DEF CountOK, LoopOK
  <2> QED  BY <2>1, <2>4, <2>5 DEF IInv
<1>3. CASE DumpEnd
  <2>1. /\ UNCHANGED <<list, counter, member, loop, mixed, stray>>
        /\ job[Master].do = "dump" /\ job'[Master] = Idle
        /\ disk'.list = job[Master].list /\ disk'.member = job[Master].member
    BY <1>3 DEF DumpEnd, Walks, IInv, Shapes
  <2>2. job'[Master].do # "dump" /\ "do" \in DOMAIN job'[Master]
    BY <2>1 DEF Idle
  <2>3. job[Master].member = [u \in Users |-> job[Master].member[u]]
    <3> DEFINE j == job[Master]
    <3>1. j = [do |-> "dump", at |-> j.at, list |-> j.list,
               member |-> [v \in Users |-> j.member[v]], loose |-> j.loose, left |-> j.left]
      BY <2>1 DEF IInv, FrameOK
    <3> HIDE DEF j
    <3>2. j.member = [v \in Users |-> j.member[v]]
      BY <3>1
    <3> QED  BY <3>2 DEF j
  <2>4. FrameOK'
    BY <2>1, <2>2, <2>3 DEF IInv, FrameOK
  <2>5. ASSUME ~mixed' PROVE CountOK' /\ LoopOK' /\ DumpsOK'
    <3>1. CountOK /\ LoopOK /\ DumpsOK
      BY <2>1, <2>5 DEF IInv
    <3> QED  BY <2>1, <2>2, <3>1 DEF CountOK, LoopOK, DumpsOK
  <2> QED  BY <2>1, <2>4, <2>5 DEF IInv
<1> QED  BY <1>1, <1>2, <1>3

\* The ids of a dump are below the index_counter that its groups restore.
LEMMA RestartInv ==
  ASSUME IInv, LeftOK', Shapes', Restart
  PROVE  IInv'
<1> USE DEF Servers
<1> DEFINE known == {disk.list[n].id : n \in DOMAIN disk.list}
<1>1. /\ UNCHANGED <<disk, mixed>>
      /\ list'[Master] = disk.list /\ counter'[Master] = Above(disk.list)
      /\ member'[Master] = disk.member /\ loop'[Master] = Idle /\ job'[Master] = Idle
      /\ stray' = {u \in Users : disk.member[u] \notin known \cup {Undef}}
  BY DEF Restart, IInv, Shapes
<1>2. FrameOK'
  BY <1>1 DEF IInv, FrameOK, Idle
<1>3. ASSUME ~mixed' PROVE CountOK' /\ LoopOK' /\ DumpsOK'
  <2>1. Plain(disk.list) /\ \E bound \in Nat : Below(disk.list, bound)
    BY <1>1, <1>3 DEF IInv, DumpsOK
  <2>2. PICK bound \in Nat : Below(disk.list, bound)
    BY <2>1
  <2>3. \A n \in DOMAIN disk.list : disk.list[n].id \in Nat /\ disk.list[n].id < bound
    BY <2>1, <2>2 DEF Plain, Below, Group, GroupIds
  <2> DEFINE S == {1} \cup {disk.list[n].id + 1 : n \in DOMAIN disk.list}
  <2>4. S \subseteq Nat /\ S # {} /\ \A x \in S : x < bound + 2
    BY <2>3
  <2>5. Max(S) \in S /\ \A x \in S : x <= Max(S)
    <3> HIDE DEF S
    <3>1. bound + 2 \in Nat
      OBVIOUS
    <3> QED  BY <2>4, <3>1, GreatestNatural
  <2>6. /\ Above(disk.list) \in Nat /\ Above(disk.list) > 0
        /\ \A n \in DOMAIN disk.list : disk.list[n].id < Above(disk.list)
    <3>1. Max(S) \in Nat /\ Max(S) >= 1
      BY <2>4, <2>5
    <3>2. \A n \in DOMAIN disk.list : disk.list[n].id + 1 <= Max(S)
      BY <2>5
    <3>3. Above(disk.list) = Max(S)
      BY DEF Above
    <3> HIDE DEF S
    <3> QED  BY <2>3, <3>1, <3>2, <3>3
  <2>7. \A u \in Users \ stray' :
          disk.member[u] \in Nat /\ disk.member[u] < Above(disk.list)
    BY <1>1, <2>3, <2>6 DEF Undef
  <2>8. CountOK'
    BY <1>1, <2>1, <2>6, <2>7 DEF CountOK, Below
  <2>9. LoopOK' /\ DumpsOK'
    BY <1>1, <2>1 DEF LoopOK, DumpsOK, Idle
  <2> QED  BY <2>8, <2>9
<1> QED  BY <1>2, <1>3 DEF IInv

-----------------------------------------------------------------------------
\* Every step keeps the invariant, and only an add, or a restart, moves
\* index_counter.
LEMMA StepInv ==
  ASSUME IInv, [Next]_vars
  PROVE  /\ IInv'
         /\ left.restarts = left'.restarts /\ counter'[Master] # counter[Master] /\ ~mixed
              => Fresh(Master)
<1>1. LeftOK' /\ Shapes'
  BY StepLeft, StepShapes DEF IInv
<1>2. ASSUME NEW c \in Commands, Client(c)
      PROVE  IInv' /\ (counter'[Master] # counter[Master] /\ ~mixed => Fresh(Master))
  <2>1. Execute(Master, c)
    BY <1>2 DEF Client
  <2>2. CASE Add(Master, c)
    BY <1>1, <1>2, <2>2, AddInv
  <2>3. CASE ~Add(Master, c)
    BY <1>1, <1>2, <2>1, <2>3, CommandInv DEF Execute
  <2> QED  BY <2>2, <2>3
<1>3. CASE StoreMaster
  BY <1>1, <1>3, StoreInv
<1>4. CASE Thread(Master)
  BY <1>1, <1>4, ThreadInv
<1>5. CASE DumpGroups \/ (\E u \in Users : DumpUser(u)) \/ DumpEnd
  BY <1>1, <1>5, DumpInv
<1>6. CASE Restart
  <2>1. IInv'
    BY <1>1, <1>6, RestartInv
  <2>2. left.restarts \in Nat /\ left'.restarts = left.restarts - 1
    BY <1>6 DEF Restart, IInv, LeftOK
  <2>3. left.restarts # left'.restarts
    BY <2>2
  <2> QED  BY <2>1, <2>3
<1>7. CASE \/ \E k \in DOMAIN net : Receive(k) \/ Crash(k)
           \/ Lose \/ Double \/ StoreReplica \/ UNCHANGED vars
  <2>1. UNCHANGED AtMaster
    BY <1>7, SlaveApart DEF IInv
  <2>2. IInv'
    BY <1>1, <2>1, SameMaster
  <2> QED  BY <2>1, <2>2 DEF AtMaster
<1> QED  BY <1>2, <1>3, <1>4, <1>5, <1>6, <1>7 DEF Next, Servers

\* In every state, if no add has given a mask or a high id, the ids of the
\* groups of the master, of the group set under way and of its users, those
\* that a restart has brought back without their group apart, are below
\* index_counter.
THEOREM GroupsInvariance == Spec => []IInv
<1>1. IInv /\ [Next]_vars => IInv'
  BY StepInv
<1> QED  BY InitInv, <1>1, PTL DEF Spec

\* A group added by name gets an id that is nobody's (Groups::add), whatever
\* deletes, clears, dumps and group sets are under way and whatever has been
\* restored.
THEOREM NewGroupFresh == Spec => NewGroupIsFresh
<1>1. IInv /\ [Next]_vars
        => [(left.restarts = left'.restarts /\ counter'[Master] # counter[Master] /\ ~mixed)
              => Fresh(Master)]_vars
  BY StepInv
<1> QED  BY GroupsInvariance, <1>1, PTL DEF Spec, NewGroupIsFresh
-----------------------------------------------------------------------------
\* The ids that groups filter gives.

\* What the properties below need of the operator | of C.
Joins ==
  /\ \A i, j \in Nat : Either(i, j) \in Nat
  /\ \A i \in Nat : Either(Undef, i) = i

\* Numbers have a least one.
LEMMA LeastNatural ==
  ASSUME NEW S, S \subseteq Nat, S # {}
  PROVE  Min(S) \in S /\ \A x \in S : Min(S) <= x
<1>1. PICK n \in S : \A k \in S : <<k, n>> \notin OpToRel(<, Nat)
  BY WFMin, NatLessThanWellFounded
<1>2. \A k \in S : ~(k < n)
  BY <1>1 DEF OpToRel
<1>3. \E x \in S : \A y \in S : x <= y
  BY <1>2
<1> QED  BY <1>3 DEF Min

\* The function that joins the ids of the groups named at a set of places, from
\* the first place on (FoldLeft).
Folds(f, groups, names, n) ==
  f = [s \in SUBSET (1 .. n) |->
         IF s = {} THEN Undef ELSE Either(f[s \ {Max(s)}], groups[names[Max(s)]].id)]

\* The greatest of some places.
LEMMA LastPlace ==
  ASSUME NEW n \in Nat, NEW s \in SUBSET (1 .. n), s # {}
  PROVE  Max(s) \in s /\ \A x \in s : x <= Max(s)
<1>1. s \subseteq Nat /\ n + 1 \in Nat /\ \A x \in s : x < n + 1
  OBVIOUS
<1> QED  BY <1>1, GreatestNatural

\* There is such a function for any number of names: otherwise there would be
\* a least number without one.
LEMMA FoldsExist ==
  ASSUME NEW groups, NEW names, NEW n \in Nat
  PROVE  \E f : Folds(f, groups, names, n)
<1> DEFINE Bad == {k \in Nat : ~ \E f : Folds(f, groups, names, k)}
<1> SUFFICES ASSUME Bad # {} PROVE FALSE
  OBVIOUS
<1> DEFINE k == Min(Bad)
<1>1. k \in Bad /\ \A x \in Bad : k <= x
  <2>1. Bad \subseteq Nat
    OBVIOUS
  <2> HIDE DEF Bad
  <2> QED  BY <2>1, LeastNatural
<1> HIDE DEF k
<1>2. CASE k = 0
  <2> DEFINE f == [s \in SUBSET (1 .. 0) |-> Undef]
  <2>1. \A s \in SUBSET (1 .. 0) : s = {}
    OBVIOUS
  <2>2. Folds(f, groups, names, 0)
    BY <2>1 DEF Folds
  <2> QED  BY <1>1, <1>2, <2>2
<1>3. CASE k > 0
  <2>1. k - 1 \in Nat /\ k - 1 \notin Bad
    BY <1>1, <1>3
  <2>2. PICK f : Folds(f, groups, names, k - 1)
    BY <2>1
  <2> DEFINE g == [s \in SUBSET (1 .. k) |->
                     IF k \in s THEN Either(f[s \ {k}], groups[names[k]].id) ELSE f[s]]
             h == [s \in SUBSET (1 .. k) |->
                     IF s = {} THEN Undef ELSE Either(g[s \ {Max(s)}], groups[names[Max(s)]].id)]
  <2>3. ASSUME NEW s \in SUBSET (1 .. k) PROVE g[s] = h[s]
    <3>1. k \in Nat
      BY <1>1
    <3>2. CASE k \in s
      <4>1. Max(s) = k
        <5>1. s # {} /\ Max(s) \in s /\ \A x \in s : x <= Max(s)
          BY <3>1, <3>2, LastPlace
        <5>2. Max(s) \in 1 .. k /\ k <= Max(s)
          BY <3>2, <5>1
        <5> QED  BY <3>1, <5>2
      <4>2. s \ {k} \in SUBSET (1 .. k) /\ k \notin s \ {k}
        OBVIOUS
      <4>3. g[s \ {k}] = f[s \ {k}]
        BY <4>2
      <4> QED  BY <3>2, <4>1, <4>3
    <3>3. CASE k \notin s
      <4>1. s \in SUBSET (1 .. (k - 1))
        BY <3>1, <3>3
      <4>2. g[s] = f[s] /\ f[s] = IF s = {} THEN Undef
                                  ELSE Either(f[s \ {Max(s)}], groups[names[Max(s)]].id)
        BY <2>2, <3>3, <4>1 DEF Folds
      <4>3. g[s \ {Max(s)}] = f[s \ {Max(s)}]
        BY <3>3
      <4> QED  BY <4>2, <4>3
    <3> QED  BY <3>2, <3>3
  <2>4. g = h
    <3>1. g = [s \in SUBSET (1 .. k) |-> g[s]] /\ h = [s \in SUBSET (1 .. k) |-> h[s]]
      OBVIOUS
    <3> HIDE DEF g, h
    <3> QED  BY <2>3, <3>1
  <2>5. Folds(g, groups, names, k)
    BY <2>4 DEF Folds
  <2> QED  BY <1>1, <2>5
<1> QED  BY <1>1, <1>2, <1>3

\* The joined id is what one of these functions gives for all the names.
LEMMA JoinedFolds ==
  ASSUME NEW groups, NEW S, NEW names \in Seq(S)
  PROVE  \E f : Folds(f, groups, names, Len(names)) /\ Joined(groups, names) = f[1 .. Len(names)]
<1> DEFINE f == CHOOSE f : f = [s \in SUBSET (DOMAIN names) |->
                  IF s = {} THEN Undef ELSE Either(f[s \ {Max(s)}], groups[names[Max(s)]].id)]
<1>1. Joined(groups, names) = f[DOMAIN names]
  BY DEF Joined, FoldLeft, MapThenFoldSet
<1>2. DOMAIN names = 1 .. Len(names) /\ Len(names) \in Nat
  OBVIOUS
<1>3. f = CHOOSE g : Folds(g, groups, names, Len(names))
  BY <1>2 DEF Folds
<1>4. \E g : Folds(g, groups, names, Len(names))
  BY <1>2, FoldsExist
<1> HIDE DEF f
<1>5. Folds(f, groups, names, Len(names))
  BY <1>3, <1>4
<1> QED  BY <1>1, <1>2, <1>5

\* The id of several groups is a number.
LEMMA JoinedId ==
  ASSUME Joins, NEW groups, groups \in [DOMAIN groups -> Group],
         NEW names \in Seq(DOMAIN groups)
  PROVE  Joined(groups, names) \in Nat
<1> DEFINE n == Len(names)
<1>1. PICK f : Folds(f, groups, names, n) /\ Joined(groups, names) = f[1 .. n]
  BY JoinedFolds
<1> DEFINE Bad == {k \in 0 .. n : \E s \in SUBSET (1 .. k) : f[s] \notin Nat}
<1>2. CASE Bad # {}
  <2> DEFINE k == Min(Bad)
  <2>1. k \in Bad /\ \A x \in Bad : k <= x
    <3>1. Bad \subseteq Nat
      OBVIOUS
    <3> HIDE DEF Bad
    <3> QED  BY <1>2, <3>1, LeastNatural
  <2> HIDE DEF k
  <2>2. PICK s \in SUBSET (1 .. k) : f[s] \notin Nat
    BY <2>1
  <2>3. k \in Nat /\ k <= n /\ n \in Nat
    BY <2>1
  <2>4. s \in SUBSET (1 .. n)
    BY <2>3
  <2>5. f[s] = IF s = {} THEN Undef ELSE Either(f[s \ {Max(s)}], groups[names[Max(s)]].id)
    BY <1>1, <2>4 DEF Folds
  <2>6. s # {}
    BY <2>2, <2>5 DEF Undef
  <2>7. Max(s) \in s /\ \A x \in s : x <= Max(s)
    BY <2>3, <2>6, LastPlace
  <2>8. groups[names[Max(s)]].id \in Nat
    <3>1. Max(s) \in 1 .. n
      BY <2>4, <2>7
    <3>2. names[Max(s)] \in DOMAIN groups
      BY <3>1
    <3> QED  BY <3>2 DEF Group, GroupIds
  <2>9. f[s \ {Max(s)}] \in Nat
    <3>1. k - 1 \in 0 .. n /\ k - 1 \notin Bad
      BY <2>1, <2>3, <2>6
    <3>2. s \ {Max(s)} \in SUBSET (1 .. (k - 1))
      BY <2>3, <2>7
    <3> QED  BY <3>1, <3>2
  <2> QED  BY <2>2, <2>5, <2>6, <2>8, <2>9 DEF Joins
<1>3. CASE Bad = {}
  <2>1. n \in 0 .. n
    OBVIOUS
  <2>2. f[1 .. n] \in Nat
    BY <1>3, <2>1
  <2> QED  BY <1>1, <2>2
<1> QED  BY <1>2, <1>3

\* The joined id of one group is its own.
LEMMA JoinedSingle ==
  ASSUME Joins, NEW groups, groups \in [DOMAIN groups -> Group],
         NEW names \in Seq(DOMAIN groups), Len(names) = 1
  PROVE  Joined(groups, names) = groups[names[1]].id
<1>1. PICK f : Folds(f, groups, names, 1) /\ Joined(groups, names) = f[1 .. 1]
  BY JoinedFolds
<1>2. 1 .. 1 = {1} /\ {1} \in SUBSET (1 .. 1) /\ {} \in SUBSET (1 .. 1) /\ {1} \ {1} = {}
  OBVIOUS
<1>3. Max({1}) = 1
  BY <1>2, LastPlace
<1>4. f[{}] = Undef /\ f[{1}] = Either(f[{}], groups[names[1]].id)
  <2>1. \A s \in SUBSET (1 .. 1) :
          f[s] = IF s = {} THEN Undef ELSE Either(f[s \ {Max(s)}], groups[names[Max(s)]].id)
    BY <1>1 DEF Folds
  <2> QED  BY <1>2, <1>3, <2>1
<1>5. groups[names[1]].id \in Nat
  <2>1. names[1] \in DOMAIN groups
    OBVIOUS
  <2> QED  BY <2>1 DEF Group, GroupIds
<1> QED  BY <1>1, <1>2, <1>4, <1>5 DEF Joins

\* What groups filter gives is an id or the unknown one; for one name it is the
\* id of the group of that name.
LEMMA FilterId ==
  ASSUME Joins, NEW groups, groups \in [DOMAIN groups -> Group], NEW names \in Seq(Names),
         FilterParse(groups, names) # Unknown
  PROVE  /\ FilterParse(groups, names) \in Nat
         /\ Len(names) = 1 => /\ names[1] \in DOMAIN groups
                              /\ FilterParse(groups, names) = groups[names[1]].id
<1> DEFINE I == {i \in 1 .. Len(names) : names[i] \notin DOMAIN groups \/ groups[names[i]].mask = 0}
           k == Deciding(groups, names)
<1>1. k = IF I # {} THEN Min(I) ELSE 0
  BY DEF Deciding, SelectInSeq
<1>2. I # {} => Min(I) \in I
  <2>1. I \subseteq Nat
    OBVIOUS
  <2> HIDE DEF I
  <2> QED  BY <2>1, LeastNatural
<1>3. k \in I \/ (k = 0 /\ I = {})
  <2> HIDE DEF I, k
  <2> QED  BY <1>1, <1>2
<1>4. FilterParse(groups, names) = IF k = 0 THEN Joined(groups, names)
                                   ELSE IF names[k] \in DOMAIN groups THEN groups[names[k]].id
                                   ELSE Unknown
  BY DEF FilterParse
<1> HIDE DEF k
<1>5. CASE k \in I
  <2>1. k \in 1 .. Len(names) /\ k # 0
    BY <1>5
  <2>2. names[k] \in DOMAIN groups /\ FilterParse(groups, names) = groups[names[k]].id
    BY <1>4, <2>1
  <2>3. groups[names[k]].id \in Nat
    BY <2>2 DEF Group, GroupIds
  <2>4. Len(names) = 1 => k = 1
    BY <2>1
  <2> QED  BY <2>2, <2>3, <2>4
<1>6. CASE k = 0 /\ I = {}
  <2>1. names \in Seq(DOMAIN groups)
    <3>1. \A i \in 1 .. Len(names) : names[i] \in DOMAIN groups
      BY <1>6
    <3> QED  BY <3>1
  <2>2. FilterParse(groups, names) = Joined(groups, names)
    BY <1>4, <1>6
  <2> QED  BY <2>1, <2>2, JoinedId, JoinedSingle
<1> QED  BY <1>3, <1>5, <1>6
-----------------------------------------------------------------------------
\* The types, of both servers.

\* Groups with names and ids, and a bound of the ids.
Listed(groups) ==
  /\ DOMAIN groups \subseteq Names
  /\ groups \in [DOMAIN groups -> Group]
  /\ \E bound \in Nat : Below(groups, bound)
  /\ \A n \in DOMAIN groups : groups[n].id # Undef

\* A group set of some groups.
SetCommand == [do : {"set"}, user : Users, names : Chosen \ {<<>>}]

\* The threads that are not a dump.
Jobs ==
  {Idle}
    \cup [do : {"delete"}, at : {"groups"}, name : Names \cup {NoName}]
    \cup [do : {"delete"}, at : {"users"}, id : GroupIds, left : SUBSET Users]
    \cup [do : {"clear"}, at : {"groups"}]
    \cup [do : {"clear"}, at : {"users"}, left : SUBSET Users]

\* A dump that is being written.
Writing(j) ==
  /\ j = [do |-> "dump", at |-> "users", list |-> j.list, member |-> j.member,
          loose |-> j.loose, left |-> j.left]
  /\ Listed(j.list) /\ j.member \in [Users -> GroupIds] /\ j.loose \subseteq Users

\* What a server has in memory.
ServerOK(s) ==
  /\ Listed(list[s])
  /\ counter[s] \in Nat \ {0}
  /\ member[s] \in [Users -> GroupIds]
  /\ \/ loop[s] = Idle
     \/ /\ loop[s] = [do |-> "set", command |-> loop[s].command, id |-> loop[s].id]
        /\ loop[s].command \in SetCommand /\ loop[s].id \in GroupIds
  /\ job[s] \in Jobs \/ Writing(job[s])
  /\ loose[s] \subseteq Users

DiskOK == Listed(disk.list) /\ disk.member \in [Users -> GroupIds] /\ disk.loose \subseteq Users

NetOK ==
  net \in Seq(Command) /\ mixed \in BOOLEAN /\ stray \subseteq Users /\ parted \subseteq Everything

TInv == LeftOK /\ Shapes /\ (\A s \in Servers : ServerOK(s)) /\ DiskOK /\ NetOK

\* What a server has.
At(s) == <<list[s], counter[s], member[s], loop[s], job[s], loose[s]>>

\* A server leaves the other and the disk alone, and makes no stray.
LEMMA ServersApart ==
  ASSUME Shapes, NEW s \in Servers, NEW c, Execute(s, c) \/ Store(s) \/ Thread(s)
  PROVE  UNCHANGED disk /\ stray' \subseteq stray /\ \A t \in Servers \ {s} : UNCHANGED At(t)
<1> USE DEF At, Shapes, Settling
<1>1. CASE Add(s, c)
  BY <1>1 DEF Add
<1>2. CASE Delete(s, c)
  BY <1>2 DEF Delete
<1>3. CASE Clear(s, c)
  BY <1>3 DEF Clear
<1>4. CASE Lookup(s, c)
  BY <1>4 DEF Lookup
<1>5. CASE Reset(s, c)
  BY <1>5 DEF Reset
<1>6. CASE Store(s)
  BY <1>6 DEF Store
<1>7. CASE DelGroup(s)
  BY <1>7 DEF DelGroup, Walks
<1>8. CASE ClearGroups(s)
  BY <1>8 DEF ClearGroups, Walks
<1>9. ASSUME NEW u \in Users, UngroupStep(s, u)
      PROVE  UNCHANGED disk /\ stray' \subseteq stray /\ \A t \in Servers \ {s} : UNCHANGED At(t)
  BY <1>9 DEF UngroupStep, Ungroup, Walks
<1>10. CASE UngroupEnd(s)
  BY <1>10 DEF UngroupEnd, Walks
<1> QED
  BY <1>1, <1>2, <1>3, <1>4, <1>5, <1>6, <1>7, <1>8, <1>9, <1>10 DEF Execute, Thread

\* A server that has what it had is as it was.
LEMMA ServerSame ==
  ASSUME NEW s \in Servers, ServerOK(s), UNCHANGED At(s)
  PROVE  ServerOK(s)'
BY DEF ServerOK, At, Listed, Below, Writing

\* Commands of clients have their type.
LEMMA CommandsTyped ==
  ASSUME LeftOK, NEW c \in Commands
  PROVE  c \in Command
<1>1. ASSUME NEW n \in Names, NEW g \in left.given,
             c = [do |-> "add", name |-> n, id |-> g.id, mask |-> g.mask]
      PROVE  c \in Command
  <2>1. g \in Group
    BY <1>1 DEF LeftOK
  <2>2. g.id \in GroupIds /\ g.mask \in GroupIds
    BY <2>1 DEF Group
  <2> QED  BY <1>1, <2>2 DEF Command
<1>2. CASE c \in [do : {"delete"}, name : Names]
  BY <1>2 DEF Command
<1>3. CASE c = [do |-> "clear"]
  BY <1>3 DEF Command
<1>4. CASE c \in [do : {"set"}, user : Users, names : Chosen]
  BY <1>4 DEF Command
<1> QED  BY <1>1, <1>2, <1>3, <1>4 DEF Commands

\* A command is of the kind that it says.
LEMMA CommandKinds ==
  ASSUME NEW c \in Command
  PROVE  /\ c.do = "add" => c \in [do : {"add"}, name : Names, id : GroupIds, mask : GroupIds]
         /\ c.do = "delete" => c \in [do : {"delete"}, name : Names \cup {NoName}]
         /\ c.do = "set" => c \in [do : {"set"}, user : Users, names : Chosen]
         /\ c.do \in {"add", "delete", "clear", "set"}
BY DEF Command

\* A group more is a list of groups.
LEMMA InsertedListed ==
  ASSUME NEW groups, Listed(groups), NEW n \in Names, NEW g \in Group, g.id # Undef
  PROVE  Listed(Inserted(groups, n, g)) /\ n \in DOMAIN Inserted(groups, n, g)
<1> DEFINE more == Inserted(groups, n, g)
<1>1. /\ DOMAIN more = DOMAIN groups \cup {n}
      /\ \A m \in DOMAIN more : more[m] = IF m \in DOMAIN groups THEN groups[m] ELSE g
      /\ more = [m \in DOMAIN more |-> more[m]]
  BY DEF Inserted
<1> HIDE DEF more
<1>2. \A m \in DOMAIN more : more[m] \in Group
  BY <1>1 DEF Listed
<1>3. more \in [DOMAIN more -> Group]
  BY <1>1, <1>2
<1>4. \E bound \in Nat : Below(more, bound)
  <2>1. PICK b \in Nat : Below(groups, b)
    BY DEF Listed
  <2>2. b + g.id + 1 \in Nat /\ g.id \in Nat
    BY DEF Group, GroupIds
  <2>3. \A m \in DOMAIN groups : groups[m].id \in Nat /\ groups[m].id < b
    BY <2>1 DEF Below, Listed, Group, GroupIds
  <2>4. \A m \in DOMAIN more : more[m].id < b + g.id + 1
    BY <1>1, <2>2, <2>3
  <2> QED  BY <2>2, <2>4 DEF Below
<1>5. \A m \in DOMAIN more : more[m].id # Undef
  BY <1>1 DEF Listed
<1> QED  BY <1>1, <1>3, <1>4, <1>5 DEF Listed, more

\* A group less, too.
LEMMA RestrictListed ==
  ASSUME NEW groups, Listed(groups), NEW S
  PROVE  Listed(Restrict(groups, DOMAIN groups \ S))
BY DEF Listed, Restrict, Below

\* No groups at all.
LEMMA EmptyListed == Listed(Empty)
<1>1. DOMAIN Empty = {} /\ Empty \in [DOMAIN Empty -> Group]
  BY DEF Empty
<1>2. Below(Empty, 0)
  BY <1>1 DEF Below
<1> QED  BY <1>1, <1>2 DEF Listed

\* What a command does to a server.
LEMMA ExecuteTypes ==
  ASSUME Joins, Shapes, NEW s \in Servers, ServerOK(s), NEW c \in Command, Execute(s, c)
  PROVE  ServerOK(s)' /\ (c.do = "add" => c.name \in DOMAIN list'[s])
<1> USE DEF Shapes
<1>1. CASE Add(s, c)
  <2> DEFINE g == IF c.id = Undef THEN [id |-> counter[s], mask |-> 0]
                  ELSE [id |-> c.id, mask |-> c.mask]
  <2>1. /\ list'[s] = Inserted(list[s], c.name, g)
        /\ counter'[s] = counter[s] + 1 \/ counter'[s] = counter[s]
        /\ UNCHANGED <<member[s], loop[s], job[s], loose[s]>> /\ c.do = "add"
    BY <1>1 DEF Add
  <2>2. c.name \in Names /\ c.id \in Nat /\ c.mask \in Nat
    BY <2>1, CommandKinds DEF GroupIds
  <2>3. g \in Group /\ g.id # Undef
    BY <2>2 DEF Group, GroupIds, ServerOK, Undef
  <2> HIDE DEF g
  <2>4. Listed(list'[s]) /\ c.name \in DOMAIN list'[s]
    BY <2>1, <2>2, <2>3, InsertedListed DEF ServerOK
  <2>5. counter'[s] \in Nat \ {0}
    BY <2>1 DEF ServerOK
  <2> QED  BY <2>1, <2>4, <2>5 DEF ServerOK, Listed, Below, Writing
<1>2. CASE Delete(s, c)
  <2>1. /\ UNCHANGED <<list[s], counter[s], member[s], loop[s], loose[s]>> /\ c.do = "delete"
        /\ job'[s] = [do |-> "delete", at |-> "groups", name |-> c.name]
    BY <1>2 DEF Delete
  <2>2. c.name \in Names \cup {NoName}
    BY <2>1, CommandKinds
  <2>3. job'[s] \in Jobs
    BY <2>1, <2>2 DEF Jobs
  <2> QED  BY <2>1, <2>3 DEF ServerOK, Listed, Below
<1>3. CASE Clear(s, c)
  <2>1. /\ UNCHANGED <<list[s], counter[s], member[s], loop[s], loose[s]>> /\ c.do = "clear"
        /\ job'[s] = [do |-> "clear", at |-> "groups"]
    BY <1>3 DEF Clear
  <2>2. job'[s] \in Jobs
    BY <2>1 DEF Jobs
  <2> QED  BY <2>1, <2>2 DEF ServerOK, Listed, Below
<1>4. CASE Lookup(s, c)
  <2> DEFINE id == FilterParse(list[s], c.names)
  <2>1. /\ UNCHANGED <<list[s], counter[s], member[s], job[s], loose[s]>> /\ c.do = "set"
        /\ c.names # <<>>
        /\ \/ UNCHANGED loop[s]
           \/ loop'[s] = [do |-> "set", command |-> c, id |-> id] /\ id # Unknown
    BY <1>4 DEF Lookup, Refused
  <2>2. c \in SetCommand /\ c.names \in Seq(Names)
    BY <2>1, CommandKinds DEF SetCommand
  <2>3. id # Unknown => id \in Nat
    BY <2>2, FilterId DEF ServerOK, Listed
  <2> HIDE DEF id
  <2>4. CASE UNCHANGED loop[s]
    BY <2>1, <2>4 DEF ServerOK, Listed, Below, Writing
  <2>5. CASE loop'[s] = [do |-> "set", command |-> c, id |-> id] /\ id # Unknown
    <3>1. loop'[s].command = c /\ loop'[s].id = id
      BY <2>5
    <3> QED  BY <2>1, <2>2, <2>3, <2>5, <3>1 DEF ServerOK, Listed, Below, Writing, GroupIds
  <2> QED  BY <2>1, <2>4, <2>5
<1>5. CASE Reset(s, c)
  <2>1. /\ UNCHANGED <<list[s], counter[s], loop[s], job[s]>> /\ c.do = "set"
        /\ member'[s] = [member[s] EXCEPT ![c.user] = Undef]
        /\ loose'[s] = loose[s] \ {c.user}
    BY <1>5 DEF Reset
  <2>2. Undef \in GroupIds /\ member[s] \in [Users -> GroupIds] /\ loose[s] \subseteq Users
    BY DEF ServerOK, GroupIds, Undef
  <2>3. member'[s] \in [Users -> GroupIds] /\ loose'[s] \subseteq Users
    BY <2>1, <2>2
  <2> QED  BY <2>1, <2>3 DEF ServerOK, Listed, Below, Writing
<1>6. c.do = "add" => Add(s, c)
  BY DEF Execute, Delete, Clear, Lookup, Reset
<1>7. Add(s, c) => c.name \in DOMAIN list'[s]
  BY CommandKinds DEF Add, Inserted
<1> QED  BY <1>1, <1>2, <1>3, <1>4, <1>5, <1>6, <1>7 DEF Execute

\* group set stores an id for a user.
LEMMA StoreTypes ==
  ASSUME Shapes, NEW s \in Servers, ServerOK(s), Store(s)
  PROVE  ServerOK(s)'
<1> USE DEF Shapes
<1> DEFINE u == loop[s].command.user
<1>1. /\ UNCHANGED <<list[s], counter[s], job[s]>>
      /\ loop[s] # Idle /\ loop'[s] = Idle
      /\ member'[s] = [member[s] EXCEPT ![u] = loop[s].id]
      /\ loose'[s] = loose[s] \cup {u} \/ loose'[s] = loose[s] \ {u}
  BY DEF Store, Ready
<1>2. u \in Users /\ loop[s].id \in GroupIds
  BY <1>1 DEF ServerOK, SetCommand
<1> HIDE DEF u
<1>3. member'[s] \in [Users -> GroupIds] /\ loose'[s] \subseteq Users
  BY <1>1, <1>2 DEF ServerOK
<1> QED  BY <1>1, <1>3 DEF ServerOK, Listed, Below, Writing

\* The threads of groups delete and groups clear.
LEMMA ThreadTypes ==
  ASSUME Shapes, NEW s \in Servers, ServerOK(s), Thread(s)
  PROVE  ServerOK(s)'
<1> USE DEF Shapes
<1>1. CASE DelGroup(s)
  <2>1. /\ UNCHANGED <<counter[s], member[s], loop[s], loose[s]>>
        /\ \/ job'[s] = Idle /\ list'[s] = list[s]
           \/ /\ job[s].name \in DOMAIN list[s]
              /\ list'[s] = Restrict(list[s], DOMAIN list[s] \ {job[s].name})
              /\ job'[s] = [do |-> "delete", at |-> "users", id |-> list[s][job[s].name].id,
                            left |-> Users]
    BY <1>1 DEF DelGroup, Walks
  <2>2. job'[s] \in Jobs
    BY <2>1 DEF Jobs, ServerOK, Listed, Group
  <2>3. Listed(list'[s])
    <3>1. Listed(list[s]) /\ Listed(Restrict(list[s], DOMAIN list[s] \ {job[s].name}))
      BY RestrictListed DEF ServerOK
    <3> QED  BY <2>1, <3>1
  <2> QED  BY <2>1, <2>2, <2>3 DEF ServerOK
<1>2. CASE ClearGroups(s)
  <2>1. /\ UNCHANGED <<counter[s], member[s], loop[s], loose[s]>>
        /\ job'[s] = [do |-> "clear", at |-> "users", left |-> Users] /\ list'[s] = Empty
    BY <1>2 DEF ClearGroups, Walks
  <2>2. job'[s] \in Jobs
    BY <2>1 DEF Jobs
  <2> QED  BY <2>1, <2>2, EmptyListed DEF ServerOK
<1>3. ASSUME NEW u \in Users, UngroupStep(s, u) PROVE ServerOK(s)'
  <2>1. /\ UNCHANGED <<list[s], counter[s], loop[s]>>
        /\ job[s].do \in {"delete", "clear"} /\ job[s].at = "users"
        /\ job'[s] = [job[s] EXCEPT !.left = @ \ {u}]
        /\ \/ UNCHANGED <<member[s], loose[s]>>
           \/ /\ member'[s] = [member[s] EXCEPT ![u] = Undef]
              /\ loose'[s] = loose[s] \ {u}
    BY <1>3 DEF UngroupStep, Ungroup, Walks
  <2>2. \/ job[s] \in [do : {"delete"}, at : {"users"}, id : GroupIds, left : SUBSET Users]
        \/ job[s] \in [do : {"clear"}, at : {"users"}, left : SUBSET Users]
    <3>1. ~Writing(job[s])
      BY <2>1 DEF Writing
    <3> QED  BY <2>1, <3>1 DEF ServerOK, Jobs, Idle
  <2>3. job'[s] \in Jobs
    BY <2>1, <2>2 DEF Jobs
  <2>4. member'[s] \in [Users -> GroupIds] /\ loose'[s] \subseteq Users
    <3>1. Undef \in GroupIds /\ member[s] \in [Users -> GroupIds] /\ loose[s] \subseteq Users
      BY DEF ServerOK, GroupIds, Undef
    <3> QED  BY <2>1, <3>1
  <2> QED  BY <2>1, <2>3, <2>4 DEF ServerOK, Listed, Below
<1>4. CASE UngroupEnd(s)
  <2>1. /\ UNCHANGED <<list[s], counter[s], member[s], loop[s], loose[s]>>
        /\ job'[s] = Idle
    BY <1>4 DEF UngroupEnd, Walks
  <2> QED  BY <2>1 DEF ServerOK, Listed, Below, Jobs
<1> QED  BY <1>1, <1>2, <1>3, <1>4 DEF Thread

\* index_counter after a restart.
LEMMA AboveTyped ==
  ASSUME NEW groups, Listed(groups)
  PROVE  Above(groups) \in Nat \ {0}
<1> DEFINE S == {1} \cup {groups[n].id + 1 : n \in DOMAIN groups}
<1>1. PICK bound \in Nat : Below(groups, bound)
  BY DEF Listed
<1>2. \A n \in DOMAIN groups : groups[n].id \in Nat /\ groups[n].id < bound
  BY <1>1 DEF Below, Listed, Group, GroupIds
<1>3. S \subseteq Nat \ {0} /\ S # {} /\ \A x \in S : x < bound + 2
  BY <1>2
<1>4. bound + 2 \in Nat
  OBVIOUS
<1>5. Above(groups) = Max(S)
  BY DEF Above
<1> HIDE DEF S
<1> QED  BY <1>3, <1>4, <1>5, GreatestNatural

\* What is sent to the slave are commands.
LEMMA DatagramsTyped ==
  ASSUME NEW c \in Command, Listed(list'[Master]),
         c.do = "add" => c.name \in DOMAIN list'[Master]
  PROVE  Datagrams(c) \in Seq(Command)
<1>1. CASE c.do = "add" /\ c.id = Undef
  <2> DEFINE id == list'[Master][c.name].id
  <2>1. id \in GroupIds
    BY <1>1 DEF Listed, Group
  <2>2. c \in [do : {"add"}, name : Names, id : GroupIds, mask : GroupIds]
    BY <1>1, CommandKinds
  <2>3. Datagrams(c) = <<[c EXCEPT !.id = id]>>
    BY <1>1 DEF Datagrams
  <2> HIDE DEF id
  <2>4. [c EXCEPT !.id = id] \in Command
    BY <2>1, <2>2 DEF Command
  <2> QED  BY <2>3, <2>4
<1>2. CASE c.do = "delete"
  <2>1. c \in [do : {"delete"}, name : Names \cup {NoName}]
    BY <1>2, CommandKinds
  <2>2. [c EXCEPT !.name = NoName] \in Command
    BY <2>1 DEF Command
  <2>3. Datagrams(c) = <<[c EXCEPT !.name = NoName]>>
    BY <1>2 DEF Datagrams
  <2> QED  BY <2>2, <2>3
<1>3. CASE c.do = "set" /\ c.names # <<>>
  <2>1. Datagrams(c) = <<>>
    BY <1>3 DEF Datagrams
  <2> QED  BY <2>1
<1>4. CASE ~(c.do = "add" /\ c.id = Undef) /\ c.do # "delete" /\ ~(c.do = "set" /\ c.names # <<>>)
  <2>1. Datagrams(c) = <<c>>
    BY <1>4 DEF Datagrams
  <2> QED  BY <2>1
<1> QED  BY <1>1, <1>2, <1>3, <1>4

\* Datagrams that follow the others.
LEMMA SendTyped ==
  ASSUME NetOK, NEW cs \in Seq(Command), Send(cs)
  PROVE  net' \in Seq(Command)
<1>1. net' = net \o cs \/ net' = net
  BY DEF Send
<1>2. net \in Seq(Command)
  BY DEF NetOK
<1>3. net \o cs \in Seq(Command)
  BY <1>2
<1> QED  BY <1>1, <1>2, <1>3

\* Datagrams but for one.
LEMMA RemoveTyped ==
  ASSUME NEW S, NEW seq \in Seq(S), NEW k \in DOMAIN seq
  PROVE  RemoveAt(seq, k) \in Seq(S)
<1>1. k \in 1 .. Len(seq) /\ Len(seq) \in Nat
  OBVIOUS
<1>2. SubSeq(seq, 1, k - 1) \in Seq(S)
  BY <1>1
<1>3. SubSeq(seq, k + 1, Len(seq)) \in Seq(S)
  BY <1>1
<1> QED  BY <1>2, <1>3 DEF RemoveAt

\* A dump.
LEMMA DumpTypes ==
  ASSUME TInv, DumpGroups \/ (\E u \in Users : DumpUser(u)) \/ DumpEnd
  PROVE  /\ ServerOK(Master)' /\ DiskOK'
         /\ UNCHANGED <<net, mixed, stray, parted>> /\ \A t \in Servers \ {Master} : UNCHANGED At(t)
<1> USE DEF Servers
<1>1. ServerOK(Master) /\ DiskOK
  BY DEF TInv
<1>2. CASE DumpGroups
  <2>1. /\ UNCHANGED <<list, counter, member, loop, disk, net, mixed, loose, stray, parted>>
        /\ job'[Master] = [do |-> "dump", at |-> "users", list |-> list[Master],
                           member |-> Alone, loose |-> {}, left |-> Users]
        /\ \A t \in Servers \ {Master} : job'[t] = job[t]
    BY <1>2 DEF DumpGroups, Walks, TInv, Shapes
  <2>2. Alone \in [Users -> GroupIds]
    BY DEF Alone, Undef, GroupIds
  <2> DEFINE j == job'[Master]
  <2>3. j.list = list[Master] /\ j.member = Alone /\ j.loose = {} /\ j.left = Users
    BY <2>1
  <2>4. Writing(j)
    <3>1. j = [do |-> "dump", at |-> "users", list |-> j.list, member |-> j.member,
               loose |-> j.loose, left |-> j.left]
      <4> HIDE DEF j
      <4> QED  BY <2>1, <2>3 DEF j
    <3> HIDE DEF j
    <3> QED  BY <1>1, <2>2, <2>3, <3>1 DEF Writing, ServerOK
  <2>5. ServerOK(Master)'
    BY <1>1, <2>1, <2>4 DEF ServerOK, Listed, Below
  <2>6. DiskOK'
    BY <1>1, <2>1 DEF DiskOK, Listed, Below
  <2> QED  BY <2>1, <2>5, <2>6 DEF At
<1>3. ASSUME NEW u \in Users, DumpUser(u)
      PROVE  /\ ServerOK(Master)' /\ DiskOK'
             /\ UNCHANGED <<net, mixed, stray, parted>> /\ \A t \in Servers \ {Master} : UNCHANGED At(t)
  <2> DEFINE j == job[Master]
             m == [j.member EXCEPT ![u] = member[Master][u]]
             l == IF u \in loose[Master] THEN j.loose \cup {u} ELSE j.loose
             k == [do |-> "dump", at |-> "users", list |-> j.list, member |-> m, loose |-> l,
                   left |-> j.left \ {u}]
  <2>1. /\ UNCHANGED <<list, counter, member, loop, disk, net, mixed, loose, stray, parted>>
        /\ job'[Master] = [j EXCEPT !.left = @ \ {u}, !.member[u] = member[Master][u],
                             !.loose = IF u \in loose[Master] THEN @ \cup {u} ELSE @]
        /\ \A t \in Servers \ {Master} : job'[t] = job[t]
        /\ j.do = "dump"
    BY <1>3 DEF DumpUser, Walks, TInv, Shapes
  <2>2. Writing(j)
    BY <1>1, <2>1 DEF ServerOK, Jobs, Idle
  <2>3. job'[Master] = k
    <3>1. j = [do |-> "dump", at |-> "users", list |-> j.list, member |-> j.member,
               loose |-> j.loose, left |-> j.left]
      BY <2>2 DEF Writing
    <3> DEFINE r == [do |-> "dump", at |-> "users", list |-> j.list, member |-> j.member,
                     loose |-> j.loose, left |-> j.left]
    <3>2. job'[Master] = [r EXCEPT !.left = @ \ {u}, !.member[u] = member[Master][u],
                             !.loose = IF u \in loose[Master] THEN @ \cup {u} ELSE @]
      BY <2>1, <3>1
    <3> HIDE DEF j
    <3> QED  BY <3>2
  <2>4. m \in [Users -> GroupIds] /\ l \subseteq Users
    BY <1>1, <2>2 DEF Writing, ServerOK
  <2>5. Listed(j.list)
    BY <2>2 DEF Writing
  <2> HIDE DEF j, m, l
  <2>6. /\ k.list = j.list /\ k.member = m /\ k.loose = l /\ k.left = j.left \ {u}
    OBVIOUS
  <2>7. Writing(k)
    <3>1. k = [do |-> "dump", at |-> "users", list |-> k.list, member |-> k.member,
               loose |-> k.loose, left |-> k.left]
      BY <2>6
    <3> HIDE DEF k
    <3> QED  BY <2>4, <2>5, <2>6, <3>1 DEF Writing
  <2> HIDE DEF k
  <2>8. ServerOK(Master)'
    BY <1>1, <2>1, <2>3, <2>7 DEF ServerOK, Listed, Below
  <2>9. DiskOK'
    BY <1>1, <2>1 DEF DiskOK, Listed, Below
  <2> QED  BY <2>1, <2>8, <2>9 DEF At
<1>4. CASE DumpEnd
  <2>1. /\ UNCHANGED <<list, counter, member, loop, net, mixed, loose, stray, parted>>
        /\ job[Master].do = "dump" /\ job'[Master] = Idle
        /\ disk'.list = job[Master].list /\ disk'.member = job[Master].member
        /\ disk'.loose = job[Master].loose
        /\ \A t \in Servers \ {Master} : job'[t] = job[t]
    BY <1>4 DEF DumpEnd, Walks, TInv, Shapes
  <2>2. Writing(job[Master])
    BY <1>1, <2>1 DEF ServerOK, Jobs, Idle
  <2>3. DiskOK'
    BY <2>1, <2>2 DEF DiskOK, Writing, Listed, Below
  <2>4. ServerOK(Master)'
    BY <1>1, <2>1 DEF ServerOK, Jobs, Listed, Below
  <2> QED  BY <2>1, <2>3, <2>4 DEF At
<1> QED  BY <1>2, <1>3, <1>4

\* The master comes back with what its dump has.
LEMMA RestartTypes ==
  ASSUME TInv, Restart
  PROVE  /\ ServerOK(Master)' /\ UNCHANGED <<disk, net, mixed>>
         /\ stray' \subseteq Users /\ parted' = Everything
         /\ \A t \in Servers \ {Master} : UNCHANGED At(t)
<1> USE DEF Servers
<1>1. ServerOK(Master) /\ DiskOK
  BY DEF TInv
<1>2. /\ UNCHANGED <<disk, net, mixed>> /\ parted' = Everything /\ stray' \subseteq Users
      /\ list'[Master] = disk.list /\ counter'[Master] = Above(disk.list)
      /\ member'[Master] = disk.member /\ loop'[Master] = Idle /\ job'[Master] = Idle
      /\ loose'[Master] = disk.loose \cup stray'
  BY DEF Restart, TInv, Shapes
<1>3. counter'[Master] \in Nat \ {0}
  BY <1>1, <1>2, AboveTyped DEF DiskOK
<1>4. loose'[Master] \subseteq Users
  BY <1>1, <1>2 DEF DiskOK
<1>5. Listed(list'[Master])
  BY <1>1, <1>2 DEF DiskOK
<1>6. ServerOK(Master)'
  BY <1>1, <1>2, <1>3, <1>4, <1>5 DEF ServerOK, Jobs, DiskOK
<1>7. \A t \in Servers \ {Master} : UNCHANGED At(t)
  BY DEF Restart, TInv, Shapes, At
<1> QED  BY <1>2, <1>6, <1>7

\* Whom a fault harms are users and groups.
LEMMA HarmTyped ==
  ASSUME TInv, NEW d \in Command
  PROVE  Harm(d) \subseteq Everything
<1> DEFINE sent    == {c \in ToSet(net) : c.do = "set"}
           setting == sent \cup (IF loop[Master] = Idle THEN {} ELSE {loop[Master].command})
<1>1. \A c \in setting : c.user \in Users
  <2>1. \A c \in ToSet(net) : c \in Command
    BY DEF TInv, NetOK, ToSet
  <2>2. \A c \in sent : c.user \in Users
    BY <2>1, CommandKinds
  <2>3. loop[Master] # Idle => loop[Master].command.user \in Users
    BY DEF TInv, ServerOK, SetCommand, Servers
  <2> QED  BY <2>2, <2>3
<1>2. Harm(d) = CASE d.do = "add" -> {d.name} \cup {c.user : c \in {c \in setting : d.name \in ToSet(c.names)}}
                  [] d.do = "set" -> {d.user}
                  [] OTHER        -> Everything
  BY DEF Harm
<1> HIDE DEF setting
<1>3. (d.do = "add" => d.name \in Names) /\ (d.do = "set" => d.user \in Users)
  BY CommandKinds
<1> QED  BY <1>1, <1>2, <1>3 DEF Everything

\* The types hold at first.
LEMMA InitTypes == Init => TInv
<1> SUFFICES ASSUME Init PROVE TInv
  OBVIOUS
<1>1. LeftOK /\ Shapes
  BY DEF Init, LeftOK, Shapes
<1>2. Alone \in [Users -> GroupIds]
  BY DEF Alone, Undef, GroupIds
<1>3. ASSUME NEW s \in Servers PROVE ServerOK(s)
  BY <1>2, EmptyListed DEF Init, ServerOK, Jobs
<1>4. DiskOK
  BY <1>2, EmptyListed DEF Init, DiskOK
<1>5. NetOK
  <2>1. net = <<>> /\ mixed = FALSE /\ stray = {} /\ parted = {}
    BY DEF Init
  <2>2. <<>> \in Seq(Command)
    OBVIOUS
  <2> QED  BY <2>1, <2>2 DEF NetOK
<1> QED  BY <1>1, <1>3, <1>4, <1>5 DEF TInv

\* Every step keeps the types.
LEMMA StepTypes == ASSUME Joins, TInv, [Next]_vars PROVE TInv'
<1>1. LeftOK' /\ Shapes'
  BY StepLeft, StepShapes DEF TInv
<1>2. ASSUME NEW s \in Servers, ServerOK(s)', \A t \in Servers \ {s} : UNCHANGED At(t)
      PROVE  \A t \in Servers : ServerOK(t)'
  BY <1>2, ServerSame DEF TInv
<1>3. UNCHANGED disk => DiskOK'
  BY DEF TInv, DiskOK, Listed, Below
<1>13. \A d \in Command : Harm(d) \subseteq Everything
  BY HarmTyped
<1>4. ASSUME NEW c \in Commands, Client(c) PROVE TInv'
  <2>1. c \in Command /\ Execute(Master, c) /\ Master \in Servers
    BY <1>4, CommandsTyped DEF Client, TInv, Servers
  <2>2. ServerOK(Master)' /\ (c.do = "add" => c.name \in DOMAIN list'[Master])
    BY <2>1, ExecuteTypes DEF TInv
  <2>3. UNCHANGED disk /\ stray' \subseteq stray /\ \A t \in Servers \ {Master} : UNCHANGED At(t)
    BY <2>1, ServersApart DEF TInv
  <2>4. Datagrams(c) \in Seq(Command) /\ Send(Datagrams(c))
    BY <1>4, <2>1, <2>2, DatagramsTyped DEF Client, ServerOK
  <2>5. net' \in Seq(Command)
    BY <2>4, SendTyped DEF TInv
  <2>6. mixed' \in BOOLEAN /\ parted' \subseteq Everything
    BY <1>4, <1>13, <2>1 DEF Client, Parting, TInv, NetOK
  <2> QED  BY <1>1, <1>2, <1>3, <2>1, <2>2, <2>3, <2>5, <2>6 DEF TInv, NetOK
<1>5. ASSUME NEW k \in DOMAIN net, Receive(k) PROVE TInv'
  <2>1. net[k] \in Command /\ Execute(Replica, net[k]) /\ Replica \in Servers
    BY <1>5 DEF Receive, TInv, NetOK, Servers
  <2>2. ServerOK(Replica)'
    BY <2>1, ExecuteTypes DEF TInv
  <2>3. UNCHANGED disk /\ stray' \subseteq stray /\ \A t \in Servers \ {Replica} : UNCHANGED At(t)
    BY <2>1, ServersApart DEF TInv
  <2>4. net' \in Seq(Command)
    BY <1>5, RemoveTyped DEF Receive, TInv, NetOK
  <2>5. mixed' \in BOOLEAN /\ parted' \subseteq Everything
    BY <1>5, <1>13, <2>1 DEF Receive, TInv, NetOK
  <2> QED  BY <1>1, <1>2, <1>3, <2>1, <2>2, <2>3, <2>4, <2>5 DEF TInv, NetOK
<1>6. CASE Lose \/ Double
  <2>1. /\ UNCHANGED <<list, counter, member, loop, job, disk, mixed, loose, stray>>
        /\ parted' = parted \cup Harm(Head(net))
    BY <1>6 DEF Lose, Double
  <2>2. \A s \in Servers : UNCHANGED At(s)
    BY <2>1 DEF At
  <2>3. \A s \in Servers : ServerOK(s)'
    BY <2>2, ServerSame DEF TInv
  <2>4. net' \in Seq(Command)
    <3>1. net # <<>> /\ net \in Seq(Command)
      BY <1>6 DEF Lose, Double, TInv, NetOK
    <3>2. net' = Tail(net) \/ net' = Append(net, Head(net))
      BY <1>6 DEF Lose, Double
    <3> QED  BY <3>1, <3>2
  <2>5. parted' \subseteq Everything
    <3>1. Head(net) \in Command
      BY <1>6 DEF Lose, Double, TInv, NetOK
    <3> QED  BY <1>13, <2>1, <3>1 DEF TInv, NetOK
  <2> QED  BY <1>1, <1>3, <2>1, <2>3, <2>4, <2>5 DEF TInv, NetOK
<1>14. ASSUME NEW k \in DOMAIN net, Crash(k) PROVE TInv'
  <2>1. /\ UNCHANGED <<list, counter, member, loop, job, disk, mixed, loose, stray, parted>>
        /\ net' = <<>>
    BY <1>14 DEF Crash
  <2>2. \A s \in Servers : ServerOK(s)'
    BY <2>1, ServerSame DEF TInv, At
  <2>3. <<>> \in Seq(Command)
    OBVIOUS
  <2> QED  BY <1>1, <1>3, <2>1, <2>2, <2>3 DEF TInv, NetOK
<1>7. CASE StoreMaster
  <2>1. Store(Master) /\ Master \in Servers /\ Send(<<loop[Master].command>>)
    BY <1>7 DEF StoreMaster, Servers
  <2>2. ServerOK(Master)'
    BY <2>1, StoreTypes DEF TInv
  <2>3. UNCHANGED disk /\ stray' \subseteq stray /\ \A t \in Servers \ {Master} : UNCHANGED At(t)
    BY <2>1, ServersApart DEF TInv
  <2>4. loop[Master].command \in Command
    <3>1. loop[Master].command \in SetCommand
      BY <2>1 DEF Store, Ready, TInv, ServerOK
    <3> QED  BY <3>1 DEF SetCommand, Command
  <2>5. net' \in Seq(Command)
    <3>1. <<loop[Master].command>> \in Seq(Command)
      BY <2>4
    <3> QED  BY <2>1, <3>1, SendTyped DEF TInv
  <2>6. UNCHANGED <<mixed, parted>>
    BY <2>1 DEF Store
  <2> QED  BY <1>1, <1>2, <1>3, <2>1, <2>2, <2>3, <2>5, <2>6 DEF TInv, NetOK
<1>8. CASE StoreReplica
  <2>1. Store(Replica) /\ Replica \in Servers /\ UNCHANGED <<net, mixed, parted>>
    BY <1>8 DEF StoreReplica, Servers, Store
  <2>2. ServerOK(Replica)'
    BY <2>1, StoreTypes DEF TInv
  <2>3. UNCHANGED disk /\ stray' \subseteq stray /\ \A t \in Servers \ {Replica} : UNCHANGED At(t)
    BY <2>1, ServersApart DEF TInv
  <2> QED  BY <1>1, <1>2, <1>3, <2>1, <2>2, <2>3 DEF TInv, NetOK
<1>9. CASE Thread(Master)
  <2>1. Master \in Servers /\ UNCHANGED <<net, mixed, parted>>
    BY <1>9 DEF Thread, DelGroup, ClearGroups, UngroupStep, UngroupEnd, Servers
  <2>2. ServerOK(Master)'
    BY <1>9, <2>1, ThreadTypes DEF TInv
  <2>3. UNCHANGED disk /\ stray' \subseteq stray /\ \A t \in Servers \ {Master} : UNCHANGED At(t)
    BY <1>9, <2>1, ServersApart DEF TInv
  <2> QED  BY <1>1, <1>2, <1>3, <2>1, <2>2, <2>3 DEF TInv, NetOK
<1>10. CASE DumpGroups \/ (\E u \in Users : DumpUser(u)) \/ DumpEnd
  <2>1. /\ ServerOK(Master)' /\ DiskOK'
        /\ UNCHANGED <<net, mixed, stray, parted>> /\ \A t \in Servers \ {Master} : UNCHANGED At(t)
    BY <1>10, DumpTypes
  <2> QED  BY <1>1, <1>2, <2>1 DEF TInv, NetOK, Servers
<1>11. CASE Restart
  <2>1. /\ ServerOK(Master)' /\ UNCHANGED <<disk, net, mixed>>
        /\ stray' \subseteq Users /\ parted' = Everything
        /\ \A t \in Servers \ {Master} : UNCHANGED At(t)
    BY <1>11, RestartTypes
  <2> QED  BY <1>1, <1>2, <1>3, <2>1 DEF TInv, NetOK, Servers
<1>12. CASE UNCHANGED vars
  <2>1. \A s \in Servers : ServerOK(s)'
    BY <1>12, ServerSame DEF TInv, At, vars
  <2> QED  BY <1>1, <1>3, <1>12, <2>1 DEF TInv, NetOK, vars
<1> QED
  BY <1>4, <1>5, <1>6, <1>14, <1>7, <1>8, <1>9, <1>10, <1>11, <1>12 DEF Next

\* What the servers have is what their types say, whatever is deleted, cleared,
\* dumped, restored, and lost on the way to the slave, if | joins two ids to
\* an id: Groups.TypeOK.
THEOREM GroupsTyped == Joins => (Spec => []TypeOK)
<1> SUFFICES ASSUME Joins PROVE Spec => []TypeOK
  OBVIOUS
<1>1. TInv => TypeOK
  <2> SUFFICES ASSUME TInv PROVE TypeOK
    OBVIOUS
  <2>1. list = [s \in Servers |-> list[s]]
    BY DEF TInv, Shapes
  <2>2. \A s \in Servers : DOMAIN list[s] \subseteq Names /\ list[s] \in [DOMAIN list[s] -> Group]
    BY DEF TInv, ServerOK, Listed
  <2>3. counter \in [Servers -> Nat \ {0}] /\ member \in [Servers -> [Users -> GroupIds]]
        /\ loose \in [Servers -> SUBSET Users]
    BY DEF TInv, ServerOK, Shapes
  <2>4. loop \in [Servers -> {Idle} \cup [do : {"set"}, command : Command, id : GroupIds]]
    <3>1. SetCommand \subseteq Command
      BY DEF SetCommand, Command
    <3>2. ASSUME NEW s \in Servers
          PROVE  loop[s] \in {Idle} \cup [do : {"set"}, command : Command, id : GroupIds]
      <4> DEFINE l == loop[s]
      <4>1. \/ l = Idle
            \/ /\ l = [do |-> "set", command |-> l.command, id |-> l.id]
               /\ l.command \in Command /\ l.id \in GroupIds
        BY <3>1 DEF TInv, ServerOK
      <4> HIDE DEF l
      <4>2. l \in {Idle} \cup [do : {"set"}, command : Command, id : GroupIds]
        BY <4>1
      <4> QED  BY <4>2 DEF l
    <3> QED  BY <3>2 DEF TInv, Shapes
  <2> QED  BY <2>1, <2>2, <2>3, <2>4 DEF TInv, NetOK, TypeOK
<1>2. TInv /\ [Next]_vars => TInv'
  BY StepTypes
<1> QED  BY InitTypes, <1>1, <1>2, PTL DEF Spec

-----------------------------------------------------------------------------
\* Whose groups are there.

\* The ids that users may have.
Ids(s) == {Undef} \cup {list[s][n].id : n \in DOMAIN list[s]}

\* The thread of a delete or a clear will come to this user.
Reached(s, u) ==
  /\ job[s].do \in {"delete", "clear"} /\ job[s].at = "users" /\ u \in job[s].left
  /\ job[s].do = "delete" => member[s][u] = job[s].id

\* Every user is in a group that is there, or is about to lose it.
Grouped(s) == \A u \in Users \ loose[s] : member[s][u] \in Ids(s) \/ Reached(s, u)

\* A server that has what it had.
LEMMA GroupedSame ==
  ASSUME NEW s \in Servers, Grouped(s), UNCHANGED At(s)
  PROVE  Grouped(s)'
BY DEF Grouped, At, Ids, Reached

\* A command takes no id away, and begins a thread only when none is at work.
LEMMA ExecuteGrouped ==
  ASSUME Shapes, NEW s \in Servers, ServerOK(s), Grouped(s), NEW c \in Command, Execute(s, c)
  PROVE  Grouped(s)'
<1> USE DEF Shapes
<1>1. CASE Add(s, c)
  <2> DEFINE g == IF c.id = Undef THEN [id |-> counter[s], mask |-> 0]
                  ELSE [id |-> c.id, mask |-> c.mask]
  <2>1. /\ list'[s] = Inserted(list[s], c.name, g)
        /\ UNCHANGED <<member[s], job[s], loose[s]>>
    BY <1>1 DEF Add
  <2> HIDE DEF g
  <2>2. \A n \in DOMAIN list[s] : n \in DOMAIN list'[s] /\ list'[s][n] = list[s][n]
    BY <2>1 DEF Inserted
  <2>3. Ids(s) \subseteq Ids(s)'
    BY <2>2 DEF Ids
  <2> QED  BY <2>1, <2>3 DEF Grouped, Reached
<1>2. CASE Delete(s, c) \/ Clear(s, c)
  <2>1. UNCHANGED <<list[s], member[s], loose[s]>> /\ job[s] = Idle
    BY <1>2 DEF Delete, Clear
  <2>2. \A u : ~Reached(s, u)
    BY <2>1 DEF Reached, Idle
  <2> QED  BY <2>1, <2>2 DEF Grouped, Ids
<1>3. CASE Lookup(s, c)
  BY <1>3 DEF Lookup, Grouped, Ids, Reached
<1>4. CASE Reset(s, c)
  <2>1. /\ UNCHANGED <<list[s], job[s]>>
        /\ member'[s] = [member[s] EXCEPT ![c.user] = Undef]
        /\ loose'[s] = loose[s] \ {c.user}
    BY <1>4 DEF Reset
  <2>2. ASSUME NEW u \in Users \ loose'[s] PROVE member'[s][u] \in Ids(s)' \/ Reached(s, u)'
    <3>1. CASE u = c.user
      <4>1. member'[s][u] = Undef
        BY <2>1, <2>2, <3>1 DEF ServerOK
      <4> QED  BY <4>1 DEF Ids
    <3>2. CASE u # c.user
      <4>1. u \in Users \ loose[s] /\ member'[s][u] = member[s][u]
        BY <2>1, <2>2, <3>2 DEF ServerOK
      <4> QED  BY <2>1, <4>1 DEF Grouped, Ids, Reached
    <3> QED  BY <3>1, <3>2
  <2> QED  BY <2>2 DEF Grouped
<1> QED  BY <1>1, <1>2, <1>3, <1>4 DEF Execute

\* group set stores the id of a group that is there still, or the user is loose.
LEMMA StoreGrouped ==
  ASSUME Joins, Shapes, NEW s \in Servers, ServerOK(s), Grouped(s), Store(s)
  PROVE  Grouped(s)'
<1> USE DEF Shapes
<1> DEFINE c == loop[s].command
           v == c.user
<1>1. /\ UNCHANGED <<list[s], job[s]>> /\ loop[s] # Idle
      /\ member'[s] = [member[s] EXCEPT ![v] = loop[s].id]
      /\ loose'[s] = IF Len(c.names) > 1 \/ FilterParse(list[s], c.names) # loop[s].id
                     THEN loose[s] \cup {v} ELSE loose[s] \ {v}
  BY DEF Store, Ready
<1>2. c \in SetCommand /\ loop[s].id \in Nat
  BY <1>1 DEF ServerOK, GroupIds
<1>3. c.names \in Seq(Names) /\ c.names # <<>>
  BY <1>2 DEF SetCommand
<1> HIDE DEF c, v
<1>4. ASSUME NEW u \in Users \ loose'[s] PROVE member'[s][u] \in Ids(s)' \/ Reached(s, u)'
  <2>1. CASE u = v
    <3>1. Len(c.names) = 1 /\ FilterParse(list[s], c.names) = loop[s].id
      <4>1. ~(Len(c.names) > 1) /\ FilterParse(list[s], c.names) = loop[s].id
        BY <1>1, <1>4, <2>1
      <4>2. Len(c.names) \in Nat /\ Len(c.names) # 0
        BY <1>3
      <4> DEFINE l == Len(c.names)
      <4>3. l \in Nat /\ l # 0 /\ ~(l > 1)
        BY <4>1, <4>2
      <4> HIDE DEF l
      <4>4. l = 1
        BY <4>3
      <4> QED  BY <4>1, <4>4 DEF l
    <3>2. FilterParse(list[s], c.names) # Unknown
      BY <1>2, <3>1 DEF GroupIds
    <3>3. c.names[1] \in DOMAIN list[s] /\ loop[s].id = list[s][c.names[1]].id
      BY <1>3, <3>1, <3>2, FilterId DEF ServerOK, Listed
    <3>4. member'[s][u] = loop[s].id
      BY <1>1, <1>4, <2>1 DEF ServerOK
    <3> QED  BY <1>1, <3>3, <3>4 DEF Ids
  <2>2. CASE u # v
    <3>1. u \in Users \ loose[s] /\ member'[s][u] = member[s][u]
      BY <1>1, <1>4, <2>2 DEF ServerOK
    <3> QED  BY <1>1, <3>1 DEF Grouped, Ids, Reached
  <2> QED  BY <2>1, <2>2
<1> QED  BY <1>4 DEF Grouped

\* The thread that takes groups away comes to all that have them.
LEMMA ThreadGrouped ==
  ASSUME Shapes, NEW s \in Servers, ServerOK(s), Grouped(s), Thread(s)
  PROVE  Grouped(s)'
<1> USE DEF Shapes
<1>1. CASE DelGroup(s)
  <2>1. job[s].at = "groups" /\ UNCHANGED <<member[s], loose[s]>>
    BY <1>1 DEF DelGroup
  <2>2. \A u \in Users \ loose[s] : member[s][u] \in Ids(s)
    BY <2>1 DEF Grouped, Reached
  <2> DEFINE n == job[s].name
  <2>3. CASE n \notin DOMAIN list[s]
    <3>1. UNCHANGED list[s]
      BY <1>1, <2>3 DEF DelGroup
    <3> QED  BY <2>1, <2>2, <3>1 DEF Grouped, Ids
  <2>4. CASE n \in DOMAIN list[s]
    <3>1. /\ list'[s] = Restrict(list[s], DOMAIN list[s] \ {n})
          /\ job'[s] = [do |-> "delete", at |-> "users", id |-> list[s][n].id, left |-> Users]
      BY <1>1, <2>4 DEF DelGroup, Walks
    <3>2. /\ DOMAIN list'[s] = DOMAIN list[s] \ {n}
          /\ \A m \in DOMAIN list'[s] : list'[s][m] = list[s][m]
      BY <3>1 DEF Restrict
    <3>3. /\ job'[s].do = "delete" /\ job'[s].at = "users" /\ job'[s].left = Users
          /\ job'[s].id = list[s][n].id
      BY <3>1
    <3>4. \A i \in Ids(s) : i \in Ids(s)' \/ i = list[s][n].id
      BY <3>2 DEF Ids
    <3> QED  BY <2>1, <2>2, <3>3, <3>4 DEF Grouped, Reached
  <2> QED  BY <2>3, <2>4
<1>2. CASE ClearGroups(s)
  <2>1. /\ UNCHANGED <<member[s], loose[s]>>
        /\ job'[s] = [do |-> "clear", at |-> "users", left |-> Users]
    BY <1>2 DEF ClearGroups, Walks
  <2>2. \A u \in Users : Reached(s, u)'
    <3>1. job'[s].do = "clear" /\ job'[s].at = "users" /\ job'[s].left = Users
      BY <2>1
    <3> QED  BY <3>1 DEF Reached
  <2> QED  BY <2>1, <2>2 DEF Grouped
<1>3. ASSUME NEW v \in Users, UngroupStep(s, v) PROVE Grouped(s)'
  <2>1. /\ UNCHANGED list[s]
        /\ job[s].do \in {"delete", "clear"} /\ job[s].at = "users" /\ v \in job[s].left
        /\ job'[s] = [job[s] EXCEPT !.left = @ \ {v}]
    BY <1>3 DEF UngroupStep, Walks
  <2>2. \/ job[s] \in [do : {"delete"}, at : {"users"}, id : GroupIds, left : SUBSET Users]
        \/ job[s] \in [do : {"clear"}, at : {"users"}, left : SUBSET Users]
    <3>1. ~Writing(job[s])
      BY <2>1 DEF Writing
    <3> QED  BY <2>1, <3>1 DEF ServerOK, Jobs, Idle
  <2>3. /\ job'[s].do = job[s].do /\ job'[s].at = "users" /\ job'[s].left = job[s].left \ {v}
        /\ job[s].do = "delete" => job'[s].id = job[s].id
    BY <2>1, <2>2
  <2>4. ASSUME NEW u \in Users \ loose'[s] PROVE member'[s][u] \in Ids(s)' \/ Reached(s, u)'
    <3>1. CASE job[s].do = "delete" /\ member[s][v] # job[s].id
      <4>1. UNCHANGED <<member[s], loose[s]>>
        BY <1>3, <3>1 DEF UngroupStep, Ungroup
      <4>2. u = v => ~Reached(s, u)
        BY <3>1 DEF Reached
      <4> QED  BY <2>1, <2>3, <2>4, <4>1, <4>2 DEF Grouped, Ids, Reached
    <3>2. CASE ~(job[s].do = "delete" /\ member[s][v] # job[s].id)
      <4>1. /\ member'[s] = [member[s] EXCEPT ![v] = Undef]
            /\ loose'[s] = loose[s] \ {v}
        BY <1>3, <3>2 DEF UngroupStep, Ungroup
      <4>2. CASE u = v
        <5>1. member'[s][u] = Undef
          BY <2>4, <4>1, <4>2 DEF ServerOK
        <5> QED  BY <5>1 DEF Ids
      <4>3. CASE u # v
        <5>1. u \in Users \ loose[s] /\ member'[s][u] = member[s][u]
          BY <2>4, <4>1, <4>3 DEF ServerOK
        <5> QED  BY <2>1, <2>3, <4>3, <5>1 DEF Grouped, Ids, Reached
      <4> QED  BY <4>2, <4>3
    <3> QED  BY <3>1, <3>2
  <2> QED  BY <2>4 DEF Grouped
<1>4. CASE UngroupEnd(s)
  <2>1. UNCHANGED <<list[s], member[s], loose[s]>> /\ job[s].left = {}
    BY <1>4 DEF UngroupEnd
  <2>2. \A u : ~Reached(s, u)
    BY <2>1 DEF Reached
  <2> QED  BY <2>1, <2>2 DEF Grouped, Ids
<1> QED  BY <1>1, <1>2, <1>3, <1>4 DEF Thread

\* Every step keeps the users in their groups.
LEMMA StepGrouped ==
  ASSUME Joins, TInv, \A s \in Servers : Grouped(s), [Next]_vars
  PROVE  \A s \in Servers : Grouped(s)'
<1>1. ASSUME NEW s \in Servers, Grouped(s)', \A t \in Servers \ {s} : UNCHANGED At(t)
      PROVE  \A t \in Servers : Grouped(t)'
  BY <1>1, GroupedSame
<1>2. Shapes /\ \A s \in Servers : ServerOK(s)
  BY DEF TInv
<1>3. ASSUME NEW c \in Commands, Client(c) PROVE \A s \in Servers : Grouped(s)'
  <2>1. c \in Command /\ Execute(Master, c) /\ Master \in Servers
    BY <1>3, CommandsTyped DEF Client, TInv, Servers
  <2> QED  BY <1>1, <1>2, <2>1, ExecuteGrouped, ServersApart
<1>4. ASSUME NEW k \in DOMAIN net, Receive(k) PROVE \A s \in Servers : Grouped(s)'
  <2>1. net[k] \in Command /\ Execute(Replica, net[k]) /\ Replica \in Servers
    BY <1>4 DEF Receive, TInv, NetOK, Servers
  <2> QED  BY <1>1, <1>2, <2>1, ExecuteGrouped, ServersApart
<1>5. ASSUME NEW s \in Servers, Store(s) PROVE \A t \in Servers : Grouped(t)'
  BY <1>1, <1>2, <1>5, StoreGrouped, ServersApart
<1>6. ASSUME NEW s \in Servers, Thread(s) PROVE \A t \in Servers : Grouped(t)'
  BY <1>1, <1>2, <1>6, ThreadGrouped, ServersApart
<1>7. CASE Lose \/ Double \/ (\E k \in DOMAIN net : Crash(k)) \/ UNCHANGED vars
  <2>1. \A s \in Servers : UNCHANGED At(s)
    BY <1>7 DEF Lose, Double, Crash, At, vars
  <2> QED  BY <2>1, GroupedSame
<1>8. CASE DumpGroups \/ (\E u \in Users : DumpUser(u)) \/ DumpEnd
  <2>1. \A t \in Servers \ {Master} : UNCHANGED At(t)
    BY <1>8, DumpTypes
  <2>2. /\ UNCHANGED <<list, member, loose>>
        /\ job[Master].do \notin {"delete", "clear"}
    <3>1. CASE DumpGroups
      BY <3>1 DEF DumpGroups, Idle
    <3>2. ASSUME NEW u \in Users, DumpUser(u)
          PROVE  UNCHANGED <<list, member, loose>> /\ job[Master].do = "dump"
      BY <3>2 DEF DumpUser
    <3>3. CASE DumpEnd
      BY <3>3 DEF DumpEnd
    <3> QED  BY <1>8, <3>1, <3>2, <3>3
  <2>3. Grouped(Master)'
    BY <2>2 DEF Grouped, Ids, Reached, Servers
  <2> QED  BY <1>1, <2>1, <2>3 DEF Servers
<1>9. CASE Restart
  <2>1. \A t \in Servers \ {Master} : UNCHANGED At(t)
    BY <1>9, RestartTypes
  <2> DEFINE known == {disk.list[n].id : n \in DOMAIN disk.list}
  <2>2. /\ list'[Master] = disk.list /\ member'[Master] = disk.member
        /\ loose'[Master] = disk.loose \cup {u \in Users : disk.member[u] \notin known \cup {Undef}}
    BY <1>2, <1>9 DEF Restart, Shapes, Servers
  <2>3. Ids(Master)' = known \cup {Undef}
    BY <2>2 DEF Ids
  <2> HIDE DEF known
  <2>4. Grouped(Master)'
    BY <2>2, <2>3 DEF Grouped
  <2> QED  BY <1>1, <2>1, <2>4 DEF Servers
<1> QED
  BY <1>3, <1>4, <1>5, <1>6, <1>7, <1>8, <1>9 DEF Next, StoreMaster, StoreReplica, Servers

\* On either server, when no thread and no group set is at work, every user but
\* those of loose is in no group or in one that is there, whatever was deleted,
\* cleared and restored: Groups.UsersAreGrouped (group_del, groups_clear,
\* set_group).
THEOREM UsersGrouped == Joins => (Spec => []UsersAreGrouped)
<1> SUFFICES ASSUME Joins PROVE Spec => []UsersAreGrouped
  OBVIOUS
<1> DEFINE GInv == TInv /\ \A s \in Servers : Grouped(s)
<1>1. Init => GInv
  <2>1. Init => \A s \in Servers : Grouped(s)
    BY DEF Init, Grouped, Ids, Alone
  <2> QED  BY <2>1, InitTypes
<1>2. GInv /\ [Next]_vars => GInv'
  BY StepTypes, StepGrouped
<1>3. GInv => UsersAreGrouped
  <2> SUFFICES ASSUME GInv, NEW s \in Servers, loop[s] = Idle, job[s] = Idle,
                      NEW u \in Users \ loose[s]
               PROVE  member[s][u] \in {Undef} \cup {list[s][n].id : n \in DOMAIN list[s]}
    BY DEF UsersAreGrouped
  <2>1. ~Reached(s, u)
    BY DEF Reached, Idle
  <2> QED  BY <2>1 DEF Grouped, Ids
<1> QED  BY <1>1, <1>2, <1>3, PTL DEF Spec

-----------------------------------------------------------------------------
\* What the slave will have.

\* What groups filter gives depends on the groups named only.
LEMMA SameFilter ==
  ASSUME NEW groups, NEW others, NEW names \in Seq(Names),
         \A n \in ToSet(names) : /\ n \in DOMAIN groups <=> n \in DOMAIN others
                                 /\ n \in DOMAIN groups => groups[n] = others[n]
  PROVE  FilterParse(groups, names) = FilterParse(others, names)
<1> DEFINE len  == Len(names)
           I(g) == {i \in 1 .. len : names[i] \notin DOMAIN g \/ g[names[i]].mask = 0}
           k    == Deciding(groups, names)
<1>1. len \in Nat /\ \A i \in 1 .. len : names[i] \in ToSet(names)
  BY DEF ToSet
<1>2. I(groups) = I(others)
  BY <1>1
<1>3. /\ k = IF I(groups) # {} THEN Min(I(groups)) ELSE 0
      /\ Deciding(others, names) = IF I(others) # {} THEN Min(I(others)) ELSE 0
  BY DEF Deciding, SelectInSeq
<1>4. Deciding(others, names) = k
  <2> HIDE DEF I, k
  <2> QED  BY <1>2, <1>3
<1>5. k \in I(groups) \/ (k = 0 /\ I(groups) = {})
  <2>1. I(groups) # {} => Min(I(groups)) \in I(groups)
    <3>1. I(groups) \subseteq Nat
      OBVIOUS
    <3> HIDE DEF I
    <3> QED  BY <3>1, LeastNatural
  <2> HIDE DEF I, k
  <2> QED  BY <1>3, <2>1
<1>6. \A g \in {groups, others} : Deciding(g, names) = k /\
        FilterParse(g, names) = IF k = 0 THEN Joined(g, names)
                                ELSE IF names[k] \in DOMAIN g THEN g[names[k]].id ELSE Unknown
  BY <1>4 DEF FilterParse
<1> HIDE DEF k, len
<1>7. CASE k \in I(groups)
  <2>1. names[k] \in ToSet(names) /\ k # 0
    BY <1>1, <1>7
  <2> QED  BY <1>6, <2>1
<1>8. CASE k = 0 /\ I(groups) = {}
  <2>1. \A i \in 1 .. len : groups[names[i]].id = others[names[i]].id
    BY <1>1, <1>8
  <2>2. PICK f : Folds(f, groups, names, len) /\ Joined(groups, names) = f[1 .. len]
    BY JoinedFolds DEF len
  <2>3. PICK h : Folds(h, others, names, len) /\ Joined(others, names) = h[1 .. len]
    BY JoinedFolds DEF len
  <2> DEFINE Bad == {i \in 0 .. len : \E s \in SUBSET (1 .. i) : f[s] # h[s]}
  <2>4. ASSUME Bad # {} PROVE FALSE
    <3>1. PICK i \in Bad : \A x \in Bad : i <= x
      <4>1. Bad \subseteq Nat
        BY <1>1
      <4> HIDE DEF Bad
      <4> QED  BY <2>4, <4>1, LeastNatural
    <3>2. PICK s \in SUBSET (1 .. i) : f[s] # h[s]
      BY <3>1
    <3>3. i \in Nat /\ i <= len /\ s \in SUBSET (1 .. len)
      BY <1>1, <3>1
    <3>4. /\ f[s] = IF s = {} THEN Undef ELSE Either(f[s \ {Max(s)}], groups[names[Max(s)]].id)
          /\ h[s] = IF s = {} THEN Undef ELSE Either(h[s \ {Max(s)}], others[names[Max(s)]].id)
      BY <2>2, <2>3, <3>3 DEF Folds
    <3>5. s # {}
      BY <3>2, <3>4
    <3>6. Max(s) \in s /\ \A x \in s : x <= Max(s)
      BY <3>3, <3>5, LastPlace
    <3>7. groups[names[Max(s)]].id = others[names[Max(s)]].id
      BY <2>1, <3>3, <3>6
    <3>8. f[s \ {Max(s)}] = h[s \ {Max(s)}]
      <4>1. i > 0
        <5>1. PICK x \in s : TRUE
          BY <3>5
        <5> QED  BY <3>2, <3>3, <5>1
      <4>2. i - 1 \in 0 .. len /\ i - 1 < i
        BY <1>1, <3>3, <4>1
      <4>3. i - 1 \notin Bad
        <5>1. \A x \in Bad : x \in Nat
          BY <1>1
        <5> HIDE DEF Bad
        <5> QED  BY <3>1, <3>3, <4>2, <5>1
      <4>4. ASSUME NEW x \in s \ {Max(s)} PROVE x \in 1 .. (i - 1)
        <5>1. x \in 1 .. i /\ Max(s) \in 1 .. i /\ x <= Max(s) /\ x # Max(s)
          BY <3>2, <3>6
        <5> DEFINE m == Max(s)
        <5> HIDE DEF m
        <5>2. x \in 1 .. i /\ m \in 1 .. i /\ x <= m /\ x # m
          BY <5>1 DEF m
        <5> QED  BY <3>3, <5>2
      <4> QED  BY <4>2, <4>3, <4>4
    <3> QED  BY <3>2, <3>4, <3>7, <3>8
  <2>5. f[1 .. len] = h[1 .. len]
    <3>1. len \in 0 .. len
      BY <1>1
    <3> QED  BY <2>4, <3>1
  <2> QED  BY <1>6, <1>8, <2>2, <2>3, <2>5
<1> QED  BY <1>5, <1>7, <1>8

\* A server after the group set that it has looked up, on the slave.
Joining(s) ==
  IF s = Replica /\ loop[s] # Idle
  THEN [member[s] EXCEPT ![loop[s].command.user] = loop[s].id]
  ELSE member[s]
Settled(s) == [list |-> list[s], member |-> Joining(s)]

\* Two such states of the groups and users are the same, but for what is apart.
Alike(apart, a, b) ==
  /\ \A n \in Names \ apart : /\ n \in DOMAIN a.list <=> n \in DOMAIN b.list
                              /\ n \in DOMAIN a.list => a.list[n] = b.list[n]
  /\ \A u \in Users \ apart : a.member[u] = b.member[u]

\* What a datagram makes of one.
Effect(st, d) ==
  IF d.do = "add"
  THEN [list |-> Inserted(st.list, d.name, [id |-> d.id, mask |-> d.mask]), member |-> st.member]
  ELSE LET id == IF d.names = <<>> THEN Undef ELSE FilterParse(st.list, d.names)
       IN  [list |-> st.list, member |-> [u \in Users |-> IF u = d.user THEN id ELSE st.member[u]]]

\* The datagram names no group that is apart, unless its user is apart, too.
Fits(apart, d) == d.do = "set" /\ d.user \notin apart => ToSet(d.names) \cap apart = {}

\* It does what it did on the master.
Leads(apart, st, d, next) ==
  /\ d.do = "add" /\ d.name \notin apart => d.id # Undef
  /\ d.do = "set" /\ d.user \notin apart /\ d.names # <<>> => FilterParse(st.list, d.names) # Unknown
  /\ Alike(apart, Effect(st, d), next)

\* The datagrams lead from one state to another, by way of those of h.
Replays(apart, h, cs, from, to) ==
  /\ Alike(apart, from, h[0]) /\ Alike(apart, h[Len(cs)], to)
  /\ \A i \in 1 .. Len(cs) : Fits(apart, cs[i]) /\ Leads(apart, h[i - 1], cs[i], h[i])
Replayed(apart, cs, from, to) == \E h : Replays(apart, h, cs, from, to)

\* What the datagram is about is apart.
Harmed(apart, d) == (d.do = "add" => d.name \in apart) /\ (d.do = "set" => d.user \in apart)

\* While the slave runs and nothing is on its way that ends it, what it has and
\* what is on its way make what the master has, and the group set under way
\* stores what its names still mean.
Alive == left.slave /\ \A i \in DOMAIN net : ~Threaded(net[i])
Following ==
  Alive /\ parted # Everything =>
    /\ job[Master].do \notin {"delete", "clear"}
    /\ Replayed(parted, net, Settled(Replica), Settled(Master))
    /\ loop[Master] # Idle =>
         LET c == loop[Master].command
         IN  /\ Fits(parted, c)
             /\ c.user \notin parted => loop[Master].id = FilterParse(list[Master], c.names)

\* A datagram does the same to states that are alike.
LEMMA AlikeLeads ==
  ASSUME NEW apart, NEW a, NEW b, NEW d \in Command, ~Threaded(d), Fits(apart, d),
         Alike(apart, a, b)
  PROVE  /\ Alike(apart, Effect(a, d), Effect(b, d))
         /\ \A next : Leads(apart, a, d, next) => Leads(apart, b, d, next)
<1>1. /\ d.do = "add" => d.name \in Names
      /\ d.do = "set" => d.user \in Users /\ d.names \in Seq(Names)
      /\ d.do \in {"add", "set"}
  BY CommandKinds, GroupsAssumption DEF Threaded
<1>2. ASSUME d.do = "set", d.user \notin apart
      PROVE  FilterParse(a.list, d.names) = FilterParse(b.list, d.names)
  <2>1. d.names \in Seq(Names) /\ ToSet(d.names) \subseteq Names /\ ToSet(d.names) \cap apart = {}
    BY <1>1, <1>2 DEF Fits, ToSet
  <2>2. \A n \in ToSet(d.names) : /\ n \in DOMAIN a.list <=> n \in DOMAIN b.list
                                  /\ n \in DOMAIN a.list => a.list[n] = b.list[n]
    BY <2>1 DEF Alike
  <2> QED  BY <2>1, <2>2, SameFilter
<1>3. Alike(apart, Effect(a, d), Effect(b, d))
  <2>1. CASE d.do = "add"
    <3> DEFINE g == [id |-> d.id, mask |-> d.mask]
               A == Inserted(a.list, d.name, g)
               B == Inserted(b.list, d.name, g)
    <3>1. /\ Effect(a, d) = [list |-> A, member |-> a.member]
          /\ Effect(b, d) = [list |-> B, member |-> b.member]
      BY <2>1 DEF Effect
    <3> HIDE DEF g
    <3>2. /\ DOMAIN A = DOMAIN a.list \cup {d.name}
          /\ \A n \in DOMAIN A : A[n] = IF n \in DOMAIN a.list THEN a.list[n] ELSE g
          /\ DOMAIN B = DOMAIN b.list \cup {d.name}
          /\ \A n \in DOMAIN B : B[n] = IF n \in DOMAIN b.list THEN b.list[n] ELSE g
      BY DEF Inserted
    <3> HIDE DEF A, B
    <3>3. /\ Effect(a, d).list = A /\ Effect(b, d).list = B
          /\ Effect(a, d).member = a.member /\ Effect(b, d).member = b.member
      BY <3>1
    <3> QED  BY <3>2, <3>3 DEF Alike
  <2>2. CASE d.do = "set"
    <3> DEFINE id(st) == IF d.names = <<>> THEN Undef ELSE FilterParse(st.list, d.names)
               M(st)  == [u \in Users |-> IF u = d.user THEN id(st) ELSE st.member[u]]
    <3>1. \A st \in {a, b} : Effect(st, d) = [list |-> st.list, member |-> M(st)]
      BY <2>2 DEF Effect
    <3>2. \A st \in {a, b} : Effect(st, d).list = st.list /\ Effect(st, d).member = M(st)
      BY <3>1
    <3>3. d.user \notin apart => id(a) = id(b)
      BY <1>2, <2>2
    <3>4. \A u \in Users \ apart : M(a)[u] = M(b)[u]
      <4> HIDE DEF id
      <4> QED  BY <3>3 DEF Alike
    <3> HIDE DEF id, M
    <3> QED  BY <3>2, <3>4 DEF Alike
  <2> QED  BY <1>1, <2>1, <2>2
<1>4. ASSUME NEW next, Leads(apart, a, d, next) PROVE Leads(apart, b, d, next)
  <2>1. Alike(apart, Effect(b, d), next)
    BY <1>3, <1>4 DEF Alike, Leads
  <2> QED  BY <1>2, <1>4, <2>1 DEF Leads
<1> QED  BY <1>3, <1>4

\* States that are alike to one that is alike.
LEMMA AlikeTrans ==
  ASSUME NEW apart, NEW a, NEW b, NEW c, Alike(apart, a, b)
  PROVE  Alike(apart, b, a) /\ (Alike(apart, b, c) => Alike(apart, a, c))
BY DEF Alike

\* If what it is about is apart, a datagram makes no other difference.
LEMMA HarmedLeads ==
  ASSUME NEW apart, NEW st, NEW d \in Command, ~Threaded(d), Harmed(apart, d)
  PROVE  /\ Alike(apart, st, Effect(st, d)) /\ Fits(apart, d)
         /\ \A next : Alike(apart, st, next) => Leads(apart, st, d, next)
         /\ \A next : Leads(apart, st, d, next) => Alike(apart, st, next)
<1>1. d.do \in {"add", "set"}
  BY CommandKinds DEF Threaded
<1>2. Alike(apart, st, Effect(st, d))
  <2>1. CASE d.do = "add"
    <3> DEFINE g == [id |-> d.id, mask |-> d.mask]
               A == Inserted(st.list, d.name, g)
    <3>1. Effect(st, d) = [list |-> A, member |-> st.member]
      BY <2>1 DEF Effect
    <3> HIDE DEF g
    <3>2. /\ DOMAIN A = DOMAIN st.list \cup {d.name}
          /\ \A n \in DOMAIN A : A[n] = IF n \in DOMAIN st.list THEN st.list[n] ELSE g
      BY DEF Inserted
    <3> HIDE DEF A
    <3>3. Effect(st, d).list = A /\ Effect(st, d).member = st.member /\ d.name \in apart
      BY <2>1, <3>1 DEF Harmed
    <3> QED  BY <3>2, <3>3 DEF Alike
  <2>2. CASE d.do = "set"
    <3> DEFINE id == IF d.names = <<>> THEN Undef ELSE FilterParse(st.list, d.names)
               M  == [u \in Users |-> IF u = d.user THEN id ELSE st.member[u]]
    <3>1. Effect(st, d) = [list |-> st.list, member |-> M]
      BY <2>2 DEF Effect
    <3>2. d.user \in apart
      BY <2>2 DEF Harmed
    <3> HIDE DEF id
    <3>3. \A u \in Users \ apart : M[u] = st.member[u]
      BY <3>2
    <3> HIDE DEF M
    <3>4. Effect(st, d).list = st.list /\ Effect(st, d).member = M
      BY <3>1
    <3> QED  BY <3>3, <3>4 DEF Alike
  <2> QED  BY <1>1, <2>1, <2>2
<1>3. ASSUME NEW next
      PROVE  Alike(apart, st, next) <=> Alike(apart, Effect(st, d), next)
  BY <1>2 DEF Alike
<1> QED  BY <1>2, <1>3 DEF Harmed, Leads, Fits

\* More that is apart.
LEMMA ReplayedWider ==
  ASSUME NEW apart, NEW more, apart \subseteq more, NEW cs, NEW from, NEW to,
         \A i \in 1 .. Len(cs) : Fits(more, cs[i]), Replayed(apart, cs, from, to)
  PROVE  Replayed(more, cs, from, to)
<1>1. PICK h : Replays(apart, h, cs, from, to)
  BY DEF Replayed
<1>2. \A a, b : Alike(apart, a, b) => Alike(more, a, b)
  BY DEF Alike
<1>3. \A a, d, b : Leads(apart, a, d, b) => Leads(more, a, d, b)
  BY <1>2 DEF Leads
<1>4. Replays(more, h, cs, from, to)
  BY <1>1, <1>2, <1>3 DEF Replays
<1> QED  BY <1>4 DEF Replayed

\* Other states at the ends that are alike.
LEMMA ReplayedEnds ==
  ASSUME NEW apart, NEW cs, NEW from, NEW to, NEW start, NEW end, Replayed(apart, cs, from, to),
         Alike(apart, from, start), Alike(apart, to, end)
  PROVE  Replayed(apart, cs, start, end)
<1>1. PICK h : Replays(apart, h, cs, from, to)
  BY DEF Replayed
<1>2. Alike(apart, start, h[0]) /\ Alike(apart, h[Len(cs)], end)
  BY <1>1, AlikeTrans DEF Replays
<1>3. Replays(apart, h, cs, start, end)
  BY <1>1, <1>2 DEF Replays
<1> QED  BY <1>3 DEF Replayed

\* One datagram more.
LEMMA ReplayedMore ==
  ASSUME NEW apart, NEW cs \in Seq(Command), NEW d \in Command, ~Threaded(d), Fits(apart, d),
         NEW from, NEW mid, NEW to, Replayed(apart, cs, from, mid), Leads(apart, mid, d, to)
  PROVE  Replayed(apart, cs \o <<d>>, from, to)
<1>1. PICK h : Replays(apart, h, cs, from, mid)
  BY DEF Replayed
<1> DEFINE n == Len(cs)
           g == [i \in 0 .. (n + 1) |-> IF i = n + 1 THEN to ELSE h[i]]
           more == cs \o <<d>>
<1>2. /\ n \in Nat /\ Len(more) = n + 1 /\ more[n + 1] = d
      /\ \A i \in 1 .. n : more[i] = cs[i]
  OBVIOUS
<1>3. /\ Alike(apart, from, h[0]) /\ Alike(apart, h[n], mid)
      /\ \A i \in 1 .. n : Fits(apart, cs[i]) /\ Leads(apart, h[i - 1], cs[i], h[i])
  BY <1>1 DEF Replays
<1> HIDE DEF n, more
<1>4. g[0] = h[0] /\ g[n + 1] = to /\ g[n] = h[n]
  BY <1>2
<1>5. Leads(apart, h[n], d, to)
  BY <1>3, AlikeLeads, AlikeTrans
<1>6. ASSUME NEW i \in 1 .. (n + 1) PROVE Fits(apart, more[i]) /\ Leads(apart, g[i - 1], more[i], g[i])
  <2>1. CASE i = n + 1
    <3>1. i - 1 = n
      BY <1>2, <2>1
    <3> HIDE DEF g
    <3> QED  BY <1>2, <1>4, <1>5, <2>1, <3>1
  <2>2. CASE i \in 1 .. n
    <3>1. g[i - 1] = h[i - 1] /\ g[i] = h[i] /\ more[i] = cs[i]
      BY <1>2, <2>2
    <3> HIDE DEF g
    <3> QED  BY <1>3, <2>2, <3>1
  <2> QED  BY <1>2, <2>1, <2>2
<1>7. Alike(apart, from, g[0]) /\ Alike(apart, g[Len(more)], to)
  <2>1. Alike(apart, to, to)
    BY DEF Alike
  <2> QED  BY <1>2, <1>3, <1>4, <2>1
<1> HIDE DEF g
<1>8. Replays(apart, g, more, from, to)
  BY <1>2, <1>6, <1>7 DEF Replays
<1> QED  BY <1>8 DEF Replayed, more

\* Datagrams but for one.
LEMMA RemovedAt ==
  ASSUME NEW cs \in Seq(Command), NEW k \in DOMAIN cs
  PROVE  /\ RemoveAt(cs, k) \in Seq(Command) /\ Len(RemoveAt(cs, k)) = Len(cs) - 1
         /\ \A i \in 1 .. (Len(cs) - 1) : RemoveAt(cs, k)[i] = IF i < k THEN cs[i] ELSE cs[i + 1]
<1> DEFINE n == Len(cs)
           a == SubSeq(cs, 1, k - 1)
           b == SubSeq(cs, k + 1, n)
<1>1. n \in Nat /\ k \in 1 .. n
  OBVIOUS
<1>2. a \in Seq(Command) /\ Len(a) = k - 1 /\ \A i \in 1 .. (k - 1) : a[i] = cs[i]
  <2>1. 1 \in 1 .. Len(cs) + 1 /\ k - 1 \in 1 - 1 .. Len(cs)
    BY <1>1
  <2>2. /\ a \in Seq(Command)
        /\ Len(a) = IF 1 <= k - 1 THEN k - 1 - 1 + 1 ELSE 0
        /\ \A i \in 1 .. k - 1 - 1 + 1 : a[i] = cs[1 + i - 1]
    BY <2>1, SubSeqProperties
  <2> HIDE DEF a, n
  <2>3. Len(a) = k - 1
    BY <1>1, <2>2
  <2>4. ASSUME NEW i \in 1 .. (k - 1) PROVE a[i] = cs[i]
    <3>1. i \in 1 .. k - 1 - 1 + 1 /\ 1 + i - 1 = i
      BY <1>1
    <3>2. a[i] = cs[1 + i - 1]
      BY <2>2, <3>1
    <3> QED  BY <3>1, <3>2
  <2> QED  BY <2>2, <2>3, <2>4
<1>3. b \in Seq(Command) /\ Len(b) = n - k /\ \A i \in 1 .. (n - k) : b[i] = cs[i + k]
  <2>1. k + 1 \in 1 .. Len(cs) + 1 /\ n \in (k + 1) - 1 .. Len(cs)
    BY <1>1
  <2>2. /\ b \in Seq(Command)
        /\ Len(b) = IF k + 1 <= n THEN n - (k + 1) + 1 ELSE 0
        /\ \A i \in 1 .. n - (k + 1) + 1 : b[i] = cs[(k + 1) + i - 1]
    BY <2>1, SubSeqProperties
  <2> HIDE DEF b, n
  <2>3. Len(b) = n - k
    BY <1>1, <2>2
  <2>4. ASSUME NEW i \in 1 .. (n - k) PROVE b[i] = cs[i + k]
    <3>1. i \in 1 .. n - (k + 1) + 1 /\ (k + 1) + i - 1 = i + k
      BY <1>1
    <3>2. b[i] = cs[(k + 1) + i - 1]
      BY <2>2, <3>1
    <3> QED  BY <3>1, <3>2
  <2> QED  BY <2>2, <2>3, <2>4
<1>4. RemoveAt(cs, k) = a \o b
  BY DEF RemoveAt
<1> HIDE DEF a, b
<1>5. /\ a \o b \in Seq(Command) /\ Len(a \o b) = Len(a) + Len(b)
      /\ \A i \in 1 .. (Len(a) + Len(b)) : (a \o b)[i] = IF i <= Len(a) THEN a[i] ELSE b[i - Len(a)]
  BY <1>2, <1>3
<1>6. Len(a) + Len(b) = n - 1
  BY <1>1, <1>2, <1>3
<1>7. ASSUME NEW i \in 1 .. (n - 1)
      PROVE  (a \o b)[i] = IF i < k THEN cs[i] ELSE cs[i + 1]
  <2>1. i \in 1 .. (Len(a) + Len(b))
    BY <1>6
  <2>2. CASE i < k
    <3>1. i \in 1 .. (k - 1) /\ i <= Len(a)
      BY <1>1, <1>2, <2>2
    <3> QED  BY <1>2, <1>5, <2>1, <2>2, <3>1
  <2>3. CASE ~(i < k)
    <3>1. i - (k - 1) \in 1 .. (n - k) /\ ~(i <= Len(a)) /\ (i - (k - 1)) + k = i + 1
      BY <1>1, <1>2, <2>3
    <3>2. (a \o b)[i] = b[i - (k - 1)]
      BY <1>2, <1>5, <2>1, <3>1
    <3>3. b[i - (k - 1)] = cs[(i - (k - 1)) + k]
      BY <1>3, <3>1
    <3> QED  BY <2>3, <3>1, <3>2, <3>3
  <2> QED  BY <2>2, <2>3
<1> QED  BY <1>4, <1>5, <1>6, <1>7 DEF n

\* The first datagram.
LEMMA ReplayedFirst ==
  ASSUME NEW apart, NEW cs \in Seq(Command), 1 \in DOMAIN cs, ~Threaded(cs[1]),
         NEW from, NEW to, Replayed(apart, cs, from, to)
  PROVE  /\ Fits(apart, cs[1]) /\ Leads(apart, from, cs[1], Effect(from, cs[1]))
         /\ Replayed(apart, RemoveAt(cs, 1), Effect(from, cs[1]), to)
<1>1. PICK h : Replays(apart, h, cs, from, to)
  BY DEF Replayed
<1> DEFINE n    == Len(cs)
           d    == cs[1]
           rest == RemoveAt(cs, 1)
           g    == [i \in 0 .. (n - 1) |-> h[i + 1]]
<1>2. n \in Nat /\ n > 0 /\ d \in Command
  OBVIOUS
<1>3. /\ Len(rest) = n - 1
      /\ \A i \in 1 .. (n - 1) : rest[i] = cs[i + 1]
  BY RemovedAt
<1>4. /\ Alike(apart, from, h[0]) /\ Alike(apart, h[n], to)
      /\ \A i \in 1 .. n : Fits(apart, cs[i]) /\ Leads(apart, h[i - 1], cs[i], h[i])
  BY <1>1 DEF Replays
<1>5. Fits(apart, d) /\ Leads(apart, h[0], d, h[1])
  <2>1. 1 \in 1 .. n /\ 1 - 1 = 0
    BY <1>2
  <2>2. Fits(apart, cs[1]) /\ Leads(apart, h[1 - 1], cs[1], h[1])
    BY <1>4, <2>1
  <2> QED  BY <2>1, <2>2
<1> HIDE DEF n, rest, d
<1>6. Leads(apart, from, d, h[1])
  <2>1. Alike(apart, h[0], from)
    BY <1>4, AlikeTrans
  <2> QED  BY <1>2, <1>5, <2>1, AlikeLeads DEF d
<1>7. Leads(apart, from, d, Effect(from, d)) /\ Alike(apart, Effect(from, d), h[1])
  <2>1. Alike(apart, Effect(from, d), Effect(from, d))
    BY DEF Alike
  <2> QED  BY <1>6, <2>1 DEF Leads
<1>8. g[0] = h[1] /\ g[n - 1] = h[n]
  BY <1>2
<1>9. ASSUME NEW i \in 1 .. (n - 1) PROVE Fits(apart, rest[i]) /\ Leads(apart, g[i - 1], rest[i], g[i])
  <2>1. g[i - 1] = h[i] /\ g[i] = h[i + 1] /\ rest[i] = cs[i + 1]
    BY <1>2, <1>3
  <2>2. i + 1 \in 1 .. n /\ (i + 1) - 1 = i
    BY <1>2
  <2>3. Fits(apart, cs[i + 1]) /\ Leads(apart, h[(i + 1) - 1], cs[i + 1], h[i + 1])
    BY <1>4, <2>2
  <2> HIDE DEF g
  <2> QED  BY <2>1, <2>2, <2>3
<1> HIDE DEF g
<1>10. Replays(apart, g, rest, Effect(from, d), to)
  BY <1>3, <1>4, <1>7, <1>8, <1>9 DEF Replays
<1> QED  BY <1>5, <1>7, <1>10 DEF Replayed, rest, d

\* A datagram less that is about what is apart.
LEMMA ReplayedLess ==
  ASSUME NEW apart, NEW cs \in Seq(Command), NEW k \in DOMAIN cs,
         \A i \in DOMAIN cs : ~Threaded(cs[i]), Harmed(apart, cs[k]),
         NEW from, NEW to, Replayed(apart, cs, from, to)
  PROVE  Replayed(apart, RemoveAt(cs, k), from, to)
<1>1. PICK h : Replays(apart, h, cs, from, to)
  BY DEF Replayed
<1> DEFINE n    == Len(cs)
           rest == RemoveAt(cs, k)
           g    == [i \in 0 .. (n - 1) |-> IF i < k THEN h[i] ELSE h[i + 1]]
<1>2. n \in Nat /\ k \in 1 .. n /\ \A i \in 1 .. n : cs[i] \in Command /\ ~Threaded(cs[i])
  OBVIOUS
<1>3. /\ Len(rest) = n - 1
      /\ \A i \in 1 .. (n - 1) : rest[i] = IF i < k THEN cs[i] ELSE cs[i + 1]
  BY RemovedAt
<1>4. /\ Alike(apart, from, h[0]) /\ Alike(apart, h[n], to)
      /\ \A i \in 1 .. n : Fits(apart, cs[i]) /\ Leads(apart, h[i - 1], cs[i], h[i])
  BY <1>1 DEF Replays
<1> HIDE DEF n, rest
<1>5. Alike(apart, h[k - 1], h[k])
  BY <1>2, <1>4, HarmedLeads
<1>6. Alike(apart, from, g[0])
  <2>1. g[0] = h[0]
    BY <1>2
  <2> QED  BY <1>4, <2>1
<1>7. Alike(apart, g[n - 1], to)
  <2>1. CASE k = n
    <3>1. g[n - 1] = h[k - 1]
      BY <1>2, <2>1
    <3> HIDE DEF g
    <3> QED  BY <1>4, <1>5, <2>1, <3>1, AlikeTrans
  <2>2. CASE k # n
    <3>1. g[n - 1] = h[n]
      BY <1>2, <2>2
    <3> HIDE DEF g
    <3> QED  BY <1>4, <3>1
  <2> QED  BY <2>1, <2>2
<1>8. ASSUME NEW i \in 1 .. (n - 1) PROVE Fits(apart, rest[i]) /\ Leads(apart, g[i - 1], rest[i], g[i])
  <2>1. CASE i < k
    <3>1. g[i - 1] = h[i - 1] /\ g[i] = h[i] /\ rest[i] = cs[i] /\ i \in 1 .. n
      BY <1>2, <1>3, <2>1
    <3> HIDE DEF g
    <3> QED  BY <1>4, <3>1
  <2>2. CASE ~(i < k)
    <3>1. g[i] = h[i + 1] /\ rest[i] = cs[i + 1] /\ i + 1 \in 1 .. n /\ (i + 1) - 1 = i
      <4>1. i \in 0 .. (n - 1) /\ i + 1 \in 1 .. n /\ (i + 1) - 1 = i
        BY <1>2
      <4>2. g[i] = h[i + 1]
        BY <2>2, <4>1
      <4> HIDE DEF g
      <4> QED  BY <1>3, <2>2, <4>1, <4>2
    <3>2. g[i - 1] = IF i = k THEN h[k - 1] ELSE h[i]
      <4>1. i - 1 \in 0 .. (n - 1) /\ (i - 1) + 1 = i /\ (i - 1 < k <=> i = k)
        BY <1>2, <2>2
      <4>2. g[i - 1] = IF i - 1 < k THEN h[i - 1] ELSE h[(i - 1) + 1]
        BY <4>1
      <4> HIDE DEF g
      <4> QED  BY <4>1, <4>2
    <3> HIDE DEF g
    <3>3. Fits(apart, cs[i + 1]) /\ Leads(apart, h[i], cs[i + 1], h[i + 1])
      <4>1. Fits(apart, cs[i + 1]) /\ Leads(apart, h[(i + 1) - 1], cs[i + 1], h[i + 1])
        BY <1>4, <3>1
      <4> QED  BY <3>1, <4>1
    <3>4. i = k => Leads(apart, h[k - 1], cs[i + 1], h[i + 1])
      <4>1. Alike(apart, h[k], h[k - 1])
        BY <1>5, AlikeTrans
      <4> QED  BY <1>2, <3>1, <3>3, <4>1, AlikeLeads
    <3> QED  BY <3>1, <3>2, <3>3, <3>4
  <2> QED  BY <2>1, <2>2
<1> HIDE DEF g
<1>9. Replays(apart, g, rest, from, to)
  BY <1>3, <1>4, <1>6, <1>7, <1>8 DEF Replays
<1> QED  BY <1>9 DEF Replayed, rest

\* The datagrams on their way fit what is apart.
LEMMA ReplayedFits ==
  ASSUME NEW apart, NEW cs, NEW from, NEW to, Replayed(apart, cs, from, to)
  PROVE  \A i \in 1 .. Len(cs) : Fits(apart, cs[i])
BY DEF Replayed, Replays

\* What a fault harms is apart then, and the group sets under way fit that, too.
LEMMA HarmHarms ==
  ASSUME TInv, NEW d \in Command, ~Threaded(d), NEW apart, apart = parted \cup Harm(d)
  PROVE  /\ Harmed(apart, d)
         /\ \A i \in 1 .. Len(net) : Fits(parted, net[i]) => Fits(apart, net[i])
         /\ loop[Master] # Idle =>
              (Fits(parted, loop[Master].command) => Fits(apart, loop[Master].command))
<1> DEFINE sent    == {c \in ToSet(net) : c.do = "set"}
           setting == sent \cup (IF loop[Master] = Idle THEN {} ELSE {loop[Master].command})
           users   == {c.user : c \in {c \in setting : d.name \in ToSet(c.names)}}
<1>1. Harm(d) = CASE d.do = "add" -> {d.name} \cup users
                  [] d.do = "set" -> {d.user}
                  [] OTHER        -> Everything
  BY DEF Harm
<1>2. d.do \in {"add", "set"} /\ (d.do = "set" => d.user \in Users)
  BY CommandKinds DEF Threaded
<1>3. \A i \in 1 .. Len(net) : net[i] \in ToSet(net) /\ net[i] \in Command
  BY DEF TInv, NetOK, ToSet
<1>4. \A c \in setting : c \in Command
  <2>1. \A c \in ToSet(net) : c \in Command
    BY DEF TInv, NetOK, ToSet
  <2>2. loop[Master] # Idle => loop[Master].command \in Command
    BY DEF TInv, ServerOK, SetCommand, Servers, Command
  <2> QED  BY <2>1, <2>2
<1>5. ASSUME NEW c \in Command, c.do = "set" => c \in setting, Fits(parted, c) PROVE Fits(apart, c)
  <2> SUFFICES ASSUME c.do = "set", c.user \notin apart PROVE ToSet(c.names) \cap apart = {}
    BY DEF Fits
  <2>1. c.user \notin parted /\ ToSet(c.names) \cap parted = {}
    BY <1>5 DEF Fits
  <2>2. ToSet(c.names) \subseteq Names
    <3>1. c.names \in Seq(Names)
      BY CommandKinds, GroupsAssumption
    <3> QED  BY <3>1 DEF ToSet
  <2>3. CASE d.do = "add"
    <3>1. d.name \notin ToSet(c.names)
      BY <1>1, <1>5, <2>3
    <3>2. users \subseteq Users
      <4> HIDE DEF setting
      <4>1. \A e \in setting : d.name \in ToSet(e.names) => e.user \in Users \/ e.do # "set"
        BY <1>4, CommandKinds
      <4>2. \A e \in setting : e.do = "set"
        BY DEF setting, TInv, ServerOK, SetCommand, Servers
      <4> QED  BY <4>1, <4>2
    <3> HIDE DEF users
    <3> QED  BY <1>1, <2>1, <2>2, <2>3, <3>1, <3>2, GroupsAssumption
  <2>4. CASE d.do = "set"
    BY <1>1, <1>2, <2>1, <2>2, <2>4, GroupsAssumption
  <2> QED  BY <1>2, <2>3, <2>4
<1>6. Harmed(apart, d)
  <2> HIDE DEF users
  <2> QED  BY <1>1, <1>2 DEF Harmed
<1>7. ASSUME NEW i \in 1 .. Len(net), Fits(parted, net[i]) PROVE Fits(apart, net[i])
  BY <1>3, <1>5, <1>7
<1>8. ASSUME loop[Master] # Idle, Fits(parted, loop[Master].command)
      PROVE  Fits(apart, loop[Master].command)
  <2>1. loop[Master].command \in setting
    BY <1>8
  <2> QED  BY <1>4, <1>5, <1>8, <2>1
<1> QED  BY <1>6, <1>7, <1>8

\* A group that is added is added by what is sent, too.
LEMMA AddLeads ==
  ASSUME TInv, NEW c \in Command, Add(Master, c), NEW apart,
         c.id = Undef /\ c.mask # 0 => c.name \in apart
  PROVE  \E d \in Command : /\ Datagrams(c) = <<d>> /\ ~Threaded(d) /\ Fits(apart, d)
                            /\ Leads(apart, Settled(Master), d, Settled(Master)')
<1> USE DEF Servers
<1> DEFINE g == IF c.id = Undef THEN [id |-> counter[Master], mask |-> 0]
                ELSE [id |-> c.id, mask |-> c.mask]
           l == list[Master]
           m == list'[Master]
           d == IF c.id = Undef THEN [c EXCEPT !.id = m[c.name].id] ELSE c
<1>1. /\ m = Inserted(l, c.name, g) /\ UNCHANGED <<member, loop, job>> /\ c.do = "add"
  BY DEF Add, TInv, Shapes
<1>2. c \in [do : {"add"}, name : Names, id : GroupIds, mask : GroupIds]
  BY <1>1, CommandKinds
<1>3. Listed(l) /\ counter[Master] \in Nat \ {0}
  BY DEF TInv, ServerOK
<1>4. g \in Group /\ g.id # Undef
  BY <1>2, <1>3 DEF Group, GroupIds, Undef
<1>5. /\ DOMAIN m = DOMAIN l \cup {c.name}
      /\ \A n \in DOMAIN m : m[n] = IF n \in DOMAIN l THEN l[n] ELSE g
  BY <1>1 DEF Inserted
<1>6. m[c.name].id # Undef /\ m[c.name].id \in GroupIds
  <2>1. m[c.name] \in Group
    BY <1>3, <1>4, <1>5 DEF Listed
  <2> QED  BY <1>3, <1>4, <1>5, <2>1 DEF Listed, Group
<1>7. Datagrams(c) = <<d>>
  <2>1. CASE c.id = Undef
    BY <1>1, <2>1 DEF Datagrams
  <2>2. CASE c.id # Undef
    BY <1>1, <2>2 DEF Datagrams
  <2> QED  BY <2>1, <2>2
<1>8. Settled(Master) = [list |-> l, member |-> member[Master]]
      /\ Settled(Master)' = [list |-> m, member |-> member[Master]]
  BY <1>1, GroupsAssumption DEF Settled, Joining
<1>9. /\ d.do = "add" /\ d.name = c.name /\ d.id # Undef /\ d.mask = c.mask /\ d \in Command
      /\ d.id = IF c.id = Undef THEN m[c.name].id ELSE c.id
  <2>1. CASE c.id = Undef
    BY <1>2, <1>6, <2>1 DEF Command
  <2>2. CASE c.id # Undef
    BY <1>2, <2>2
  <2> QED  BY <2>1, <2>2
<1>10. ~Threaded(d) /\ Fits(apart, d)
  BY <1>9 DEF Threaded, Fits
<1> DEFINE e == [id |-> d.id, mask |-> d.mask]
<1>11. Effect(Settled(Master), d) = [list |-> Inserted(l, c.name, e), member |-> member[Master]]
  BY <1>8, <1>9 DEF Effect
<1>12. c.name \in DOMAIN l \/ c.name \in apart \/ e = g
  <2> SUFFICES ASSUME c.name \notin DOMAIN l, c.name \notin apart PROVE e = g
    OBVIOUS
  <2>1. CASE c.id = Undef
    <3>1. m[c.name] = g /\ d.id = g.id /\ d.mask = 0
      BY <1>2, <1>5, <1>9, <2>1
    <3>2. g = [id |-> counter[Master], mask |-> 0]
      BY <2>1
    <3> HIDE DEF d, g
    <3> QED  BY <3>1, <3>2
  <2>2. CASE c.id # Undef
    BY <1>9, <2>2
  <2> QED  BY <2>1, <2>2
<1> HIDE DEF d, l, m, g, e
<1>13. Alike(apart, Effect(Settled(Master), d), Settled(Master)')
  <2> DEFINE i == Inserted(l, c.name, e)
  <2>1. /\ DOMAIN i = DOMAIN l \cup {c.name}
        /\ \A n \in DOMAIN i : i[n] = IF n \in DOMAIN l THEN l[n] ELSE e
    BY DEF Inserted
  <2>2. Effect(Settled(Master), d).list = i /\ Settled(Master)'.list = m
        /\ Effect(Settled(Master), d).member = member[Master] /\ Settled(Master)'.member = member[Master]
    BY <1>8, <1>11
  <2> HIDE DEF i
  <2> QED  BY <1>5, <1>12, <2>1, <2>2 DEF Alike
<1>14. Leads(apart, Settled(Master), d, Settled(Master)')
  BY <1>9, <1>13 DEF Leads
<1> QED  BY <1>7, <1>9, <1>10, <1>14

\* The slave does what a datagram says.
LEMMA SlaveDoes ==
  ASSUME TInv, NEW d \in Command, Execute(Replica, d), NEW apart, NEW next,
         Leads(apart, Settled(Replica), d, next)
  PROVE  /\ ~Threaded(d) /\ UNCHANGED At(Master)
         /\ Alike(apart, Effect(Settled(Replica), d), Settled(Replica)')
<1> USE DEF Servers
<1> DEFINE st  == Settled(Replica)
           l   == list[Replica]
           eff == Effect(st, d)
<1>1. loop[Replica] = Idle /\ ~Delete(Replica, d) /\ ~Clear(Replica, d)
  BY GroupsAssumption DEF Execute, Add, Delete, Clear, Lookup, Reset, Ready, HasClient
<1>2. st = [list |-> l, member |-> member[Replica]] /\ st.list = l /\ st.member = member[Replica]
  BY <1>1 DEF Settled, Joining
<1>3. UNCHANGED At(Master)
  BY ServersApart, GroupsAssumption DEF TInv
<1>4. Shapes /\ member[Replica] \in [Users -> GroupIds]
  BY DEF TInv, ServerOK
<1> HIDE DEF st
<1>5. CASE Add(Replica, d)
  <2> DEFINE e == [id |-> d.id, mask |-> d.mask]
             g == IF d.id = Undef THEN [id |-> counter[Replica], mask |-> 0] ELSE e
             i == Inserted(l, d.name, e)
             m == list'[Replica]
  <2>1. UNCHANGED <<member, loop>> /\ d.do = "add" /\ m = Inserted(l, d.name, g)
    BY <1>4, <1>5 DEF Add, Shapes
  <2>2. eff = [list |-> i, member |-> member[Replica]]
    BY <1>2, <2>1 DEF Effect
  <2>3. Settled(Replica)' = [list |-> m, member |-> member[Replica]]
    BY <1>1, <2>1 DEF Settled, Joining
  <2>4. d.name \in apart \/ e = g
    BY <2>1 DEF Leads
  <2> HIDE DEF e, g
  <2>5. /\ DOMAIN i = DOMAIN l \cup {d.name}
        /\ \A n \in DOMAIN i : i[n] = IF n \in DOMAIN l THEN l[n] ELSE e
        /\ DOMAIN m = DOMAIN l \cup {d.name}
        /\ \A n \in DOMAIN m : m[n] = IF n \in DOMAIN l THEN l[n] ELSE g
    BY <2>1 DEF Inserted
  <2> HIDE DEF eff, i, m
  <2>6. /\ eff.list = i /\ eff.member = member[Replica]
        /\ Settled(Replica)'.list = m /\ Settled(Replica)'.member = member[Replica]
    BY <2>2, <2>3
  <2>7. Alike(apart, eff, Settled(Replica)')
    BY <2>4, <2>5, <2>6 DEF Alike
  <2> QED  BY <1>3, <2>1, <2>7 DEF Threaded, eff, st
<1>6. CASE Lookup(Replica, d) \/ Reset(Replica, d)
  <2> DEFINE id == IF d.names = <<>> THEN Undef ELSE FilterParse(l, d.names)
             M  == [u \in Users |-> IF u = d.user THEN id ELSE member[Replica][u]]
  <2>1. UNCHANGED list /\ d.do = "set"
    BY <1>6 DEF Lookup, Reset
  <2>2. eff = [list |-> l, member |-> M]
    BY <1>2, <2>1 DEF Effect
  <2>3. Settled(Replica)'.list = l
    BY <2>1 DEF Settled
  <2>4. ASSUME NEW u \in Users \ apart PROVE M[u] = Settled(Replica)'.member[u]
    <3>1. CASE Reset(Replica, d)
      <4>1. /\ loop'[Replica] = Idle /\ d.names = <<>>
            /\ member'[Replica] = [member[Replica] EXCEPT ![d.user] = Undef]
        BY <1>1, <1>4, <3>1 DEF Reset, Shapes
      <4>2. Settled(Replica)'.member = member'[Replica]
        BY <4>1 DEF Settled, Joining
      <4> QED  BY <1>4, <4>1, <4>2
    <3>2. CASE Lookup(Replica, d) /\ FilterParse(l, d.names) = Unknown
      <4>1. UNCHANGED <<loop, member>> /\ d.names # <<>>
        BY <3>2 DEF Lookup, Refused
      <4>2. Settled(Replica)'.member = member[Replica]
        BY <1>1, <4>1 DEF Settled, Joining
      <4>3. d.user \in apart
        BY <1>2, <2>1, <3>2, <4>1 DEF Leads, st
      <4> QED  BY <4>2, <4>3
    <3>3. CASE Lookup(Replica, d) /\ FilterParse(l, d.names) # Unknown
      <4>1. /\ UNCHANGED member /\ d.names # <<>>
            /\ loop'[Replica] = [do |-> "set", command |-> d, id |-> FilterParse(l, d.names)]
        BY <1>4, <3>3 DEF Lookup, Refused, Shapes
      <4>2. loop'[Replica].command = d /\ loop'[Replica].id = id /\ loop'[Replica] # Idle
        <5>1. loop'[Replica].do = "set" /\ Idle.do = "nothing"
          BY <4>1 DEF Idle
        <5>2. loop'[Replica].command = d /\ loop'[Replica].id = FilterParse(l, d.names)
          BY <4>1
        <5> QED  BY <4>1, <5>1, <5>2
      <4> HIDE DEF id
      <4>3. Settled(Replica)'.member = [member[Replica] EXCEPT ![d.user] = id]
        BY <4>1, <4>2 DEF Settled, Joining
      <4> QED  BY <1>4, <4>3
    <3> QED  BY <1>6, <3>1, <3>2, <3>3
  <2>5. eff.list = l /\ eff.member = M
    BY <2>2
  <2> HIDE DEF eff, l, M
  <2>6. Alike(apart, eff, Settled(Replica)')
    BY <2>3, <2>4, <2>5 DEF Alike
  <2> QED  BY <1>3, <2>1, <2>6 DEF Threaded, eff, st
<1> QED  BY <1>1, <1>5, <1>6 DEF Execute

\* A server that has what it had.
LEMMA SettledSame ==
  ASSUME NEW s \in Servers, UNCHANGED At(s)
  PROVE  UNCHANGED Settled(s)
BY DEF At, Settled, Joining

\* What a command does to the master, its datagram will do to the slave.
LEMMA ClientFollows ==
  ASSUME Joins, TInv, TInv', Following, NEW c \in Commands, Client(c)
  PROVE  Following'
<1> USE DEF Servers
<1>1. /\ c \in Command /\ Execute(Master, c) /\ loop[Master] = Idle
      /\ net' = IF left.slave THEN net \o Datagrams(c) ELSE net
      /\ parted' = parted \cup Parting(c)
  BY CommandsTyped DEF Client, TInv, Send, Execute, Add, Delete, Clear, Lookup, Reset, Ready
<1>2. left'.slave = left.slave
  <2>1. left' = [left EXCEPT !.commands = @ - 1, !.threads = IF Threaded(c) THEN @ - 1 ELSE @]
    BY DEF Client
  <2> QED  BY <2>1 DEF TInv, LeftOK
<1> SUFFICES ASSUME Alive', parted' # Everything
             PROVE  /\ job'[Master].do \notin {"delete", "clear"}
                    /\ Replayed(parted, net, Settled(Replica), Settled(Master))'
                    /\ loop'[Master] # Idle =>
                         LET d == loop'[Master].command
                         IN  /\ Fits(parted', d)
                             /\ d.user \notin parted'
                                  => loop'[Master].id = FilterParse(list'[Master], d.names)
  BY DEF Following
<1>3. left.slave /\ net' = net \o Datagrams(c) /\ parted # Everything
  BY <1>1, <1>2 DEF Alive, TInv, NetOK
<1>4. net \in Seq(Command) /\ Shapes /\ ServerOK(Master) /\ ServerOK(Replica)
  BY DEF TInv, NetOK
<1>5. ~Threaded(c)
  <2> SUFFICES ASSUME Threaded(c) PROVE FALSE
    OBVIOUS
  <2> DEFINE d == IF c.do = "delete" THEN [c EXCEPT !.name = NoName] ELSE c
  <2>1. Datagrams(c) = <<d>> /\ d.do = c.do
    BY CommandKinds, <1>1 DEF Threaded, Datagrams
  <2> HIDE DEF d
  <2>2. Len(net) + 1 \in DOMAIN net' /\ net'[Len(net) + 1] = d
    BY <1>3, <1>4, <2>1
  <2> QED  BY <2>1, <2>2 DEF Alive, Threaded
<1>6. Alive
  <2>1. \A i \in DOMAIN net : i \in DOMAIN net' /\ net'[i] = net[i]
    <3>1. Datagrams(c) \in Seq(Command) \/ Datagrams(c) = <<>> \/ \E d : Datagrams(c) = <<d>>
      BY DEF Datagrams
    <3> QED  BY <1>3, <1>4, <3>1
  <2> QED  BY <1>3, <2>1 DEF Alive
<1>7. /\ job[Master].do \notin {"delete", "clear"}
      /\ Replayed(parted, net, Settled(Replica), Settled(Master))
  BY <1>3, <1>6 DEF Following
<1>8. UNCHANGED Settled(Replica)
  <2>1. UNCHANGED At(Replica)
    BY <1>1, <1>4, ServersApart, GroupsAssumption
  <2> QED  BY <2>1, SettledSame
<1>9. Parting(c) = {} \/ Parting(c) = Harm(c)
  BY DEF Parting
<1>10. Replayed(parted', net, Settled(Replica), Settled(Master))
  <2>1. \A i \in 1 .. Len(net) : Fits(parted, net[i])
    BY <1>7, ReplayedFits
  <2>2. \A i \in 1 .. Len(net) : Fits(parted', net[i])
    <3>1. CASE Parting(c) = {}
      BY <1>1, <2>1, <3>1
    <3>2. CASE Parting(c) = Harm(c)
      BY <1>1, <1>5, <2>1, <3>2, HarmHarms
    <3> QED  BY <1>9, <3>1, <3>2
  <2> QED  BY <1>1, <1>7, <2>2, ReplayedWider
<1>11. ASSUME NEW d \in Command, Datagrams(c) = <<d>>, ~Threaded(d), Fits(parted', d),
              Leads(parted', Settled(Master), d, Settled(Master)')
       PROVE  Replayed(parted, net, Settled(Replica), Settled(Master))'
  <2>1. net' = net \o <<d>>
    BY <1>3, <1>11
  <2>2. Replayed(parted', net \o <<d>>, Settled(Replica), Settled(Master)')
    BY <1>4, <1>10, <1>11, ReplayedMore
  <2> QED  BY <1>8, <2>1, <2>2
<1>12. CASE Add(Master, c)
  <2>1. UNCHANGED <<loop, job>> /\ c.do = "add"
    BY <1>12 DEF Add
  <2>2. c.id = Undef /\ c.mask # 0 => c.name \in parted'
    BY <1>1, <2>1 DEF Parting, Harm
  <2>3. \E d \in Command : /\ Datagrams(c) = <<d>> /\ ~Threaded(d) /\ Fits(parted', d)
                           /\ Leads(parted', Settled(Master), d, Settled(Master)')
    BY <1>1, <1>12, <2>2, AddLeads
  <2> QED  BY <1>1, <1>7, <1>11, <2>1, <2>3
<1>13. CASE Lookup(Master, c)
  <2>1. UNCHANGED <<list, member, job>> /\ c.do = "set" /\ c.names # <<>>
    BY <1>13 DEF Lookup
  <2>2. Settled(Master)' = Settled(Master)
    BY <2>1, GroupsAssumption DEF Settled, Joining
  <2>3. net' = net
    <3>1. Datagrams(c) = <<>>
      BY <2>1 DEF Datagrams
    <3>2. net \o <<>> = net
      BY <1>4
    <3> QED  BY <1>3, <3>1, <3>2
  <2>4. Fits(parted', c)
    BY <1>1, <1>5, <2>1, HarmHarms DEF Parting, Harm, Fits
  <2>5. loop'[Master] # Idle =>
          /\ loop'[Master].command = c
          /\ loop'[Master].id = FilterParse(list'[Master], c.names)
    <3> DEFINE id == FilterParse(list[Master], c.names)
    <3>1. \/ UNCHANGED loop
          \/ loop'[Master] = [do |-> "set", command |-> c, id |-> id]
      BY <1>4, <1>13 DEF Lookup, Shapes
    <3> HIDE DEF id
    <3>2. CASE UNCHANGED loop
      BY <1>1, <3>2
    <3>3. CASE loop'[Master] = [do |-> "set", command |-> c, id |-> id]
      <4>1. loop'[Master].command = c /\ loop'[Master].id = id
        BY <3>3
      <4> QED  BY <2>1, <4>1 DEF id
    <3> QED  BY <3>1, <3>2, <3>3
  <2> QED  BY <1>7, <1>8, <1>10, <2>1, <2>2, <2>3, <2>4, <2>5
<1>14. CASE Reset(Master, c)
  <2>1. /\ UNCHANGED <<list, loop, job>> /\ c.do = "set" /\ c.names = <<>>
        /\ member'[Master] = [member[Master] EXCEPT ![c.user] = Undef]
    BY <1>4, <1>14 DEF Reset, Shapes
  <2>2. Datagrams(c) = <<c>>
    BY <2>1 DEF Datagrams
  <2>3. /\ Settled(Master)' = [list |-> list[Master], member |-> member'[Master]]
        /\ Settled(Master)  = [list |-> list[Master], member |-> member[Master]]
    BY <2>1, GroupsAssumption DEF Settled, Joining
  <2>4. Fits(parted', c)
    <3>1. ToSet(<<>>) = {}
      BY DEF ToSet
    <3> QED  BY <2>1, <3>1 DEF Fits
  <2>5. Effect(Settled(Master), c) = Settled(Master)'
    <3>1. [u \in Users |-> IF u = c.user THEN Undef ELSE member[Master][u]] = member'[Master]
      <4>1. member[Master] \in [Users -> GroupIds]
        BY <1>4 DEF ServerOK
      <4> QED  BY <2>1, <4>1
    <3>2. Settled(Master).list = list[Master] /\ Settled(Master).member = member[Master]
      BY <2>3
    <3> QED  BY <2>1, <2>3, <3>1, <3>2 DEF Effect
  <2>6. Leads(parted', Settled(Master), c, Settled(Master)')
    <3>1. Alike(parted', Effect(Settled(Master), c), Settled(Master)')
      BY <2>5 DEF Alike
    <3> QED  BY <2>1, <3>1 DEF Leads
  <2> QED  BY <1>1, <1>5, <1>7, <1>11, <2>1, <2>2, <2>4, <2>6
<1> QED  BY <1>1, <1>5, <1>12, <1>13, <1>14 DEF Execute, Delete, Clear, Threaded

\* The slave does what a datagram says; one that overtakes others harms
\* nothing but what it is about.
LEMMA ReceiveFollows ==
  ASSUME Joins, TInv, TInv', Following, NEW k \in DOMAIN net, Receive(k)
  PROVE  Following'
<1> USE DEF Servers
<1> DEFINE d == net[k]
<1>1. /\ d \in Command /\ Execute(Replica, d) /\ net' = RemoveAt(net, k)
      /\ parted' = IF k > 1 THEN parted \cup Harm(d) ELSE parted
  BY DEF Receive, TInv, NetOK
<1>2. left'.slave = left.slave
  BY DEF Receive, TInv, LeftOK
<1>3. net \in Seq(Command) /\ k \in 1 .. Len(net) /\ Shapes
  BY DEF TInv, NetOK
<1>4. d.do # "delete" /\ d.do # "clear"
  BY <1>1, GroupsAssumption DEF Execute, Add, Delete, Clear, Lookup, Reset, HasClient
<1> HIDE DEF d
<1>5. UNCHANGED At(Master) /\ UNCHANGED Settled(Master)
  BY <1>1, <1>3, ServersApart, SettledSame, GroupsAssumption
<1> SUFFICES ASSUME Alive', parted' # Everything
             PROVE  /\ job'[Master].do \notin {"delete", "clear"}
                    /\ Replayed(parted, net, Settled(Replica), Settled(Master))'
                    /\ loop'[Master] # Idle =>
                         LET c == loop'[Master].command
                         IN  /\ Fits(parted', c)
                             /\ c.user \notin parted'
                                  => loop'[Master].id = FilterParse(list'[Master], c.names)
  BY DEF Following
<1>6. parted # Everything /\ parted \subseteq parted'
  BY <1>1 DEF TInv, NetOK
<1>7. Alive
  <2> SUFFICES ASSUME NEW i \in DOMAIN net PROVE ~Threaded(net[i])
    BY <1>2 DEF Alive
  <2>1. CASE i = k
    BY <1>4, <2>1 DEF Threaded, d
  <2>2. CASE i < k
    <3>1. i \in DOMAIN net' /\ net'[i] = net[i]
      BY <1>1, <1>3, <2>2, RemovedAt
    <3> QED  BY <3>1 DEF Alive
  <2>3. CASE i > k
    <3>1. i - 1 \in 1 .. (Len(net) - 1) /\ ~(i - 1 < k) /\ (i - 1) + 1 = i
      BY <1>3, <2>3
    <3>2. i - 1 \in DOMAIN net' /\ net'[i - 1] = net[i]
      BY <1>1, <1>3, <3>1, RemovedAt
    <3> QED  BY <3>2 DEF Alive
  <2> QED  BY <1>3, <2>1, <2>2, <2>3
<1>8. /\ job[Master].do \notin {"delete", "clear"}
      /\ Replayed(parted, net, Settled(Replica), Settled(Master))
      /\ loop[Master] # Idle =>
           LET c == loop[Master].command
           IN  /\ Fits(parted, c)
               /\ c.user \notin parted => loop[Master].id = FilterParse(list[Master], c.names)
  BY <1>6, <1>7 DEF Following
<1>9. loop[Master] # Idle => Fits(parted', loop[Master].command)
  <2>1. CASE k > 1
    BY <1>1, <1>4, <1>8, <2>1, HarmHarms DEF Threaded
  <2>2. CASE ~(k > 1)
    BY <1>1, <1>8, <2>2
  <2> QED  BY <2>1, <2>2
<1>10. Replayed(parted, net, Settled(Replica), Settled(Master))'
  <2>1. CASE k = 1
    <3>1. /\ Leads(parted, Settled(Replica), d, Effect(Settled(Replica), d))
          /\ Replayed(parted, RemoveAt(net, 1), Effect(Settled(Replica), d), Settled(Master))
      BY <1>3, <1>7, <1>8, <2>1, ReplayedFirst DEF Alive, d
    <3>2. Alike(parted, Effect(Settled(Replica), d), Settled(Replica)')
      BY <1>1, <3>1, SlaveDoes
    <3>3. Alike(parted, Settled(Master), Settled(Master))
      BY DEF Alike
    <3>4. Replayed(parted, RemoveAt(net, 1), Settled(Replica)', Settled(Master))
      BY <3>1, <3>2, <3>3, ReplayedEnds
    <3> QED  BY <1>1, <1>5, <2>1, <3>4
  <2>2. CASE k > 1
    <3>1. Harmed(parted', d) /\ \A i \in 1 .. Len(net) : Fits(parted, net[i]) => Fits(parted', net[i])
      BY <1>1, <1>4, <2>2, HarmHarms DEF Threaded
    <3>2. Replayed(parted', net, Settled(Replica), Settled(Master))
      <4>1. \A i \in 1 .. Len(net) : Fits(parted', net[i])
        BY <1>8, <3>1, ReplayedFits
      <4> QED  BY <1>6, <1>8, <4>1, ReplayedWider
    <3>3. Replayed(parted', RemoveAt(net, k), Settled(Replica), Settled(Master))
      BY <1>3, <1>7, <3>1, <3>2, ReplayedLess DEF Alive, d
    <3>4. /\ Alike(parted', Settled(Replica), Effect(Settled(Replica), d))
          /\ Leads(parted', Settled(Replica), d, Effect(Settled(Replica), d))
      BY <1>1, <1>4, <3>1, HarmedLeads DEF Threaded
    <3>5. Alike(parted', Effect(Settled(Replica), d), Settled(Replica)')
      BY <1>1, <3>4, SlaveDoes
    <3>6. Alike(parted', Settled(Replica), Settled(Replica)')
      BY <3>4, <3>5, AlikeTrans
    <3>7. Alike(parted', Settled(Master), Settled(Master))
      BY DEF Alike
    <3>8. Replayed(parted', RemoveAt(net, k), Settled(Replica)', Settled(Master))
      BY <3>3, <3>6, <3>7, ReplayedEnds
    <3> QED  BY <1>1, <1>5, <3>8
  <2> QED  BY <1>3, <2>1, <2>2
<1> QED  BY <1>5, <1>6, <1>8, <1>9, <1>10 DEF At

\* A datagram that is lost or doubled harms nothing but what it is about.
LEMMA FaultFollows ==
  ASSUME TInv, TInv', Following, Lose \/ Double
  PROVE  Following'
<1> USE DEF Servers
<1> DEFINE d == Head(net)
<1>1. /\ UNCHANGED <<list, member, loop, job>> /\ parted' = parted \cup Harm(d)
      /\ left'.slave = left.slave
  BY DEF Lose, Double, TInv, LeftOK
<1>2. net \in Seq(Command) /\ net # <<>> /\ 1 \in DOMAIN net /\ d = net[1] /\ d \in Command
  BY DEF Lose, Double, TInv, NetOK
<1>3. UNCHANGED <<Settled(Master), Settled(Replica)>>
  BY <1>1 DEF Settled, Joining
<1>4. Lose => net' = RemoveAt(net, 1)
  <2>1. /\ Tail(net) \in Seq(Command) /\ Len(Tail(net)) = Len(net) - 1
        /\ \A i \in 1 .. (Len(net) - 1) : Tail(net)[i] = net[i + 1]
    BY <1>2
  <2>2. /\ RemoveAt(net, 1) \in Seq(Command) /\ Len(RemoveAt(net, 1)) = Len(net) - 1
        /\ \A i \in 1 .. (Len(net) - 1) : RemoveAt(net, 1)[i] = net[i + 1]
    BY <1>2, RemovedAt
  <2>3. Tail(net) = RemoveAt(net, 1)
    <3> DEFINE a == Tail(net)
               b == RemoveAt(net, 1)
    <3>1. a \in Seq(Command) /\ b \in Seq(Command) /\ Len(a) = Len(b)
          /\ \A i \in 1 .. Len(a) : a[i] = b[i]
      BY <2>1, <2>2
    <3> HIDE DEF a, b
    <3> QED  BY <3>1 DEF a, b
  <2> QED  BY <2>3 DEF Lose
<1>5. Double => net' = net \o <<d>>
  <2>1. net' = Append(net, d) \/ ~Double
    BY DEF Double
  <2> QED  BY <1>2, <2>1
<1> HIDE DEF d
<1> SUFFICES ASSUME Alive', parted' # Everything
             PROVE  /\ job'[Master].do \notin {"delete", "clear"}
                    /\ Replayed(parted, net, Settled(Replica), Settled(Master))'
                    /\ loop'[Master] # Idle =>
                         LET c == loop'[Master].command
                         IN  /\ Fits(parted', c)
                             /\ c.user \notin parted'
                                  => loop'[Master].id = FilterParse(list'[Master], c.names)
  BY DEF Following
<1>6. parted # Everything /\ parted \subseteq parted' /\ ~Threaded(d)
  <2>1. Threaded(d) => Harm(d) = Everything
    BY DEF Threaded, Harm
  <2> QED  BY <1>1, <2>1 DEF TInv, NetOK
<1>7. Alive
  <2> SUFFICES ASSUME NEW i \in DOMAIN net PROVE ~Threaded(net[i])
    BY <1>1 DEF Alive
  <2>1. CASE i = 1
    BY <1>2, <1>6, <2>1
  <2>2. CASE i # 1 /\ Lose
    <3>1. i - 1 \in 1 .. (Len(net) - 1) /\ (i - 1) + 1 = i /\ ~(i - 1 < 1)
      BY <1>2, <2>2
    <3>2. net' = RemoveAt(net, 1)
      BY <1>4, <2>2
    <3>3. 1 \in DOMAIN net /\ net \in Seq(Command)
      BY <1>2
    <3>4. /\ net' \in Seq(Command) /\ Len(net') = Len(net) - 1
          /\ \A j \in 1 .. (Len(net) - 1) : net'[j] = IF j < 1 THEN net[j] ELSE net[j + 1]
      BY <3>2, <3>3, RemovedAt
    <3>5. net'[i - 1] = net[(i - 1) + 1]
      BY <3>1, <3>4
    <3>6. i - 1 \in DOMAIN net' /\ net'[i - 1] = net[i]
      BY <3>1, <3>4, <3>5
    <3> QED  BY <3>6 DEF Alive
  <2>3. CASE Double
    <3>1. i \in DOMAIN net' /\ net'[i] = net[i]
      BY <1>2, <1>5, <2>3
    <3> QED  BY <3>1 DEF Alive
  <2> QED  BY <2>1, <2>2, <2>3
<1>8. /\ job[Master].do \notin {"delete", "clear"}
      /\ Replayed(parted, net, Settled(Replica), Settled(Master))
      /\ loop[Master] # Idle =>
           LET c == loop[Master].command
           IN  /\ Fits(parted, c)
               /\ c.user \notin parted => loop[Master].id = FilterParse(list[Master], c.names)
  BY <1>6, <1>7 DEF Following
<1>9. /\ Harmed(parted', d)
      /\ \A i \in 1 .. Len(net) : Fits(parted, net[i]) => Fits(parted', net[i])
      /\ loop[Master] # Idle => Fits(parted', loop[Master].command)
  BY <1>1, <1>2, <1>6, <1>8, HarmHarms
<1>10. Replayed(parted', net, Settled(Replica), Settled(Master))
  <2>1. \A i \in 1 .. Len(net) : Fits(parted', net[i])
    BY <1>8, <1>9, ReplayedFits
  <2> QED  BY <1>6, <1>8, <2>1, ReplayedWider
<1>11. Replayed(parted', net', Settled(Replica), Settled(Master))
  <2>1. CASE Lose
    BY <1>2, <1>4, <1>7, <1>9, <1>10, <2>1, ReplayedLess DEF Alive
  <2>2. CASE Double
    <3>1. Alike(parted', Settled(Master), Settled(Master))
      BY DEF Alike
    <3>2. Fits(parted', d) /\ Leads(parted', Settled(Master), d, Settled(Master))
      BY <1>2, <1>6, <1>9, <3>1, HarmedLeads
    <3>3. Replayed(parted', net \o <<d>>, Settled(Replica), Settled(Master))
      BY <1>2, <1>6, <1>10, <3>2, ReplayedMore
    <3> QED  BY <1>5, <2>2, <3>3
  <2> QED  BY <2>1, <2>2
<1> QED  BY <1>1, <1>3, <1>6, <1>8, <1>9, <1>11

\* group set makes what the slave will be told.
LEMMA StoreMasterFollows ==
  ASSUME TInv, Following, StoreMaster
  PROVE  Following'
<1> USE DEF Servers
<1> DEFINE c == loop[Master].command
           u == c.user
<1>1. /\ Store(Master) /\ loop[Master] # Idle /\ loop'[Master] = Idle
      /\ net' = IF left.slave THEN net \o <<c>> ELSE net
      /\ UNCHANGED <<list, job, left, parted>>
      /\ member'[Master] = [member[Master] EXCEPT ![u] = loop[Master].id]
  BY DEF StoreMaster, Store, Ready, Send, TInv, Shapes
<1>2. c \in SetCommand /\ loop[Master].id \in Nat /\ net \in Seq(Command) /\ Shapes
  BY <1>1 DEF TInv, NetOK, ServerOK, GroupIds
<1>3. c \in Command /\ c.do = "set" /\ c.names # <<>> /\ ~Threaded(c)
  BY <1>2 DEF SetCommand, Command, Threaded
<1>4. UNCHANGED Settled(Replica)
  BY <1>1, <1>2, ServersApart, SettledSame, GroupsAssumption
<1> HIDE DEF c, u
<1> SUFFICES ASSUME Alive', parted # Everything
             PROVE  /\ job[Master].do \notin {"delete", "clear"}
                    /\ Replayed(parted, net, Settled(Replica), Settled(Master))'
  BY <1>1 DEF Following
<1>5. Alive /\ net' = net \o <<c>>
  <2>1. left.slave
    BY <1>1 DEF Alive
  <2>2. net' = net \o <<c>>
    BY <1>1, <2>1
  <2>3. \A i \in DOMAIN net : i \in DOMAIN net' /\ net'[i] = net[i]
    BY <1>2, <2>2
  <2> QED  BY <2>1, <2>2, <2>3 DEF Alive
<1>6. /\ job[Master].do \notin {"delete", "clear"}
      /\ Replayed(parted, net, Settled(Replica), Settled(Master))
      /\ Fits(parted, c)
      /\ u \notin parted => loop[Master].id = FilterParse(list[Master], c.names)
  BY <1>1, <1>5 DEF Following, c, u
<1>7. /\ Settled(Master) = [list |-> list[Master], member |-> member[Master]]
      /\ Settled(Master)' = [list |-> list[Master], member |-> member'[Master]]
  BY <1>1, GroupsAssumption DEF Settled, Joining
<1>8. Leads(parted, Settled(Master), c, Settled(Master)')
  <2> DEFINE id == FilterParse(list[Master], c.names)
             M  == [v \in Users |-> IF v = u THEN id ELSE member[Master][v]]
  <2>1. Effect(Settled(Master), c) = [list |-> list[Master], member |-> M]
    <3>1. Settled(Master).list = list[Master] /\ Settled(Master).member = member[Master]
      BY <1>7
    <3> QED  BY <1>3, <3>1 DEF Effect, u
  <2>2. member[Master] \in [Users -> GroupIds]
    BY DEF TInv, ServerOK
  <2>3. \A v \in Users \ parted : M[v] = member'[Master][v]
    <3> HIDE DEF id
    <3>1. u \notin parted => loop[Master].id = id
      BY <1>6 DEF id
    <3> QED  BY <1>1, <2>2, <3>1
  <2> HIDE DEF M
  <2>4. /\ Effect(Settled(Master), c).list = list[Master] /\ Effect(Settled(Master), c).member = M
        /\ Settled(Master)'.list = list[Master] /\ Settled(Master)'.member = member'[Master]
    BY <1>7, <2>1
  <2>5. Alike(parted, Effect(Settled(Master), c), Settled(Master)')
    BY <2>3, <2>4 DEF Alike
  <2>6. u \notin parted => FilterParse(Settled(Master).list, c.names) # Unknown
    BY <1>2, <1>6, <1>7, GroupsAssumption DEF GroupIds
  <2> QED  BY <1>3, <2>5, <2>6 DEF Leads, u
<1>9. Replayed(parted, net \o <<c>>, Settled(Replica), Settled(Master)')
  BY <1>2, <1>3, <1>6, <1>8, ReplayedMore
<1> QED  BY <1>1, <1>4, <1>5, <1>6, <1>9

\* Every step keeps the slave on its way to what the master has.
LEMMA StepFollows == ASSUME Joins, TInv, TInv', Following, [Next]_vars PROVE Following'
<1> USE DEF Servers
<1>1. Shapes
  BY DEF TInv
<1>2. ASSUME parted' = Everything \/ left'.slave = FALSE PROVE Following'
  BY <1>2 DEF Following, Alive
<1>3. CASE Restart \/ \E k \in DOMAIN net : Crash(k)
  BY <1>2, <1>3 DEF Restart, Crash, TInv, LeftOK
<1>4. CASE Thread(Master)
  <2>1. job[Master].do \in {"delete", "clear"} /\ UNCHANGED <<net, left, parted>>
    BY <1>4 DEF Thread, DelGroup, ClearGroups, UngroupStep, UngroupEnd
  <2>2. ~Alive \/ parted = Everything
    BY <2>1 DEF Following
  <2> QED  BY <2>1, <2>2 DEF Following, Alive
<1>5. CASE StoreReplica
  <2>1. /\ UNCHANGED <<net, left, parted, list, job>> /\ loop'[Replica] = Idle
        /\ loop[Replica] # Idle /\ UNCHANGED At(Master)
        /\ member'[Replica] = [member[Replica] EXCEPT ![loop[Replica].command.user] = loop[Replica].id]
    BY <1>1, <1>5, ServersApart, GroupsAssumption DEF StoreReplica, Store, Ready, Shapes
  <2>2. UNCHANGED <<Settled(Master), Settled(Replica)>>
    BY <2>1, SettledSame DEF Settled, Joining
  <2> QED  BY <2>1, <2>2 DEF Following, Alive, At
<1>6. CASE \/ DumpGroups \/ (\E u \in Users : DumpUser(u)) \/ DumpEnd \/ UNCHANGED vars
  <2>1. /\ UNCHANGED <<list, member, loop, net, parted>> /\ left'.slave = left.slave
        /\ \/ job'[Master] = job[Master]
           \/ job[Master].do \notin {"clear", "delete"} /\ job'[Master].do \notin {"clear", "delete"}
    <3>1. CASE DumpGroups
      <4>1. left' = [left EXCEPT !.threads = @ - 1]
        BY <3>1 DEF DumpGroups
      <4>2. left'.slave = left.slave
        BY <4>1 DEF TInv, LeftOK
      <4>3. job[Master].do = "nothing" /\ job'[Master].do = "dump"
        BY <1>1, <3>1 DEF DumpGroups, Walks, Shapes, Idle
      <4> QED  BY <3>1, <4>2, <4>3 DEF DumpGroups
    <3>2. ASSUME NEW u \in Users, DumpUser(u)
          PROVE  /\ UNCHANGED <<list, member, loop, net, parted, left>>
                 /\ job[Master].do = "dump" /\ job'[Master].do = "dump"
      <4>1. /\ UNCHANGED <<list, member, loop, net, parted, left>> /\ job[Master].do = "dump"
            /\ job'[Master] = [job[Master] EXCEPT !.left = @ \ {u}, !.member[u] = member[Master][u],
                                 !.loose = IF u \in loose[Master] THEN @ \cup {u} ELSE @]
        BY <1>1, <3>2 DEF DumpUser, Walks, Shapes
      <4>2. "do" \in DOMAIN job[Master]
        BY <4>1 DEF TInv, ServerOK, Jobs, Idle, Writing
      <4>3. job'[Master].do = job[Master].do
        BY <4>1, <4>2
      <4> QED  BY <4>1, <4>3
    <3>3. CASE DumpEnd
      BY <1>1, <3>3 DEF DumpEnd, Walks, Shapes, Idle
    <3>4. CASE UNCHANGED vars
      BY <3>4 DEF vars
    <3> QED  BY <1>6, <3>1, <3>2, <3>3, <3>4
  <2>2. UNCHANGED <<Settled(Master), Settled(Replica)>>
    BY <2>1 DEF Settled, Joining
  <2> QED  BY <2>1, <2>2 DEF Following, Alive
<1> QED
  BY <1>3, <1>4, <1>5, <1>6, ClientFollows, ReceiveFollows, FaultFollows, StoreMasterFollows DEF Next

\* A slave that runs, once it has read everything, has the groups and the users
\* of the master but for those that faults of the network were about, with
\* groups delete and groups clear ending it; whatever was lost, doubled and
\* overtaken: Groups.SlaveFollows (Replicator::add, udp.cc).
THEOREM SlaveIsLikeMaster == Joins => (Spec => []SlaveFollows)
<1> SUFFICES ASSUME Joins PROVE Spec => []SlaveFollows
  OBVIOUS
<1>1. Init => TInv /\ Following
  <2> SUFFICES ASSUME Init PROVE Following
    BY InitTypes
  <2>1. /\ \A s \in Servers : list[s] = Empty /\ member[s] = Alone /\ loop[s] = Idle /\ job[s] = Idle
        /\ net = <<>>
    BY DEF Init
  <2> DEFINE st == [list |-> Empty, member |-> Alone]
             h  == [i \in {0} |-> st]
  <2>2. \A s \in Servers : Settled(s) = st
    BY <2>1 DEF Settled, Joining
  <2>3. Alike(parted, st, h[0])
    BY DEF Alike
  <2>4. Replays(parted, h, <<>>, st, st)
    BY <2>3, AlikeTrans DEF Replays
  <2>5. Replayed(parted, net, Settled(Replica), Settled(Master))
    BY <2>1, <2>2, <2>4 DEF Replayed, Servers
  <2> QED  BY <2>1, <2>5 DEF Following, Idle, Servers
<1>2. TInv /\ Following /\ [Next]_vars => TInv' /\ Following'
  BY StepTypes, StepFollows
<1>3. TInv /\ Following => SlaveFollows
  <2> SUFFICES ASSUME Following, left.slave, net = <<>>,
                      \A s \in Servers : loop[s] = Idle /\ job[s] = Idle
               PROVE  /\ \A n \in Names \ parted :
                           /\ n \in DOMAIN list[Replica] <=> n \in DOMAIN list[Master]
                           /\ n \in DOMAIN list[Master] => list[Replica][n] = list[Master][n]
                      /\ \A u \in Users \ parted : member[Replica][u] = member[Master][u]
    BY DEF SlaveFollows
  <2>1. CASE parted = Everything
    BY <2>1 DEF Everything
  <2>2. CASE parted # Everything
    <3>1. Len(net) = 0 /\ Alive
      BY DEF Alive
    <3>2. Replayed(parted, net, Settled(Replica), Settled(Master))
      BY <2>2, <3>1 DEF Following
    <3>3. Alike(parted, Settled(Replica), Settled(Master))
      BY <3>1, <3>2, AlikeTrans DEF Replayed, Replays
    <3>4. \A s \in Servers : Settled(s) = [list |-> list[s], member |-> member[s]]
      BY DEF Settled, Joining
    <3>5. \A s \in Servers : Settled(s).list = list[s] /\ Settled(s).member = member[s]
      BY <3>4
    <3> QED  BY <3>3, <3>5 DEF Alike, Servers
  <2> QED  BY <2>1, <2>2
<1> QED  BY <1>1, <1>2, <1>3, PTL DEF Spec
-----------------------------------------------------------------------------
\* The names of an id.

\* What the property needs of the operators & and | of C.
Masks ==
  /\ \A i, j \in Nat : Both(i, j) \in Nat
  /\ \A i \in Nat : /\ Both(i, 0) = 0 /\ Both(0, i) = 0
                    /\ Either(i, 0) = i /\ Either(i, i) = i
  /\ \A i, j, m \in Nat : Both(Both(i, j), m) = Both(i, Both(j, m))
  /\ \A i, j, m \in Nat : Both(Either(i, j), m) = Either(Both(i, m), Both(j, m))

\* The ids of the groups up to a place of a list are joined one after the other.
LEMMA FoldsNext ==
  ASSUME NEW groups, NEW names, NEW n \in Nat, NEW f, Folds(f, groups, names, n),
         NEW k \in 1 .. n
  PROVE  f[1 .. k] = Either(f[1 .. (k - 1)], groups[names[k]].id)
<1>1. k \in Nat /\ 1 .. k \in SUBSET (1 .. k) /\ 1 .. k \in SUBSET (1 .. n) /\ k \in 1 .. k
  OBVIOUS
<1>2. Max(1 .. k) = k
  <2>1. Max(1 .. k) \in 1 .. k /\ \A x \in 1 .. k : x <= Max(1 .. k)
    BY <1>1, LastPlace
  <2> QED  BY <1>1, <2>1
<1>3. (1 .. k) \ {k} = 1 .. (k - 1)
  BY <1>1
<1>4. f[1 .. k] = Either(f[(1 .. k) \ {Max(1 .. k)}], groups[names[Max(1 .. k)]].id)
  BY <1>1 DEF Folds
<1> QED  BY <1>2, <1>3, <1>4

\* Of a joined id, the mask of a group leaves the id of the group if it was
\* joined, and nothing if it was not.
LEMMA JoinedBits ==
  ASSUME Joins, Masks, NEW groups, groups \in [DOMAIN groups -> Group], Distinct(groups),
         NEW names \in Seq(DOMAIN groups),
         \A i \in 1 .. Len(names) : groups[names[i]].mask # 0,
         NEW n \in DOMAIN groups, groups[n].mask # 0
  PROVE  Both(Joined(groups, names), groups[n].mask)
           = IF \E i \in 1 .. Len(names) : names[i] = n THEN groups[n].id ELSE 0
<1> DEFINE len  == Len(names)
           mask == groups[n].mask
           own  == groups[n].id
<1>1. PICK f : Folds(f, groups, names, len) /\ Joined(groups, names) = f[1 .. len]
  BY JoinedFolds
<1>2. len \in Nat /\ mask \in Nat /\ own \in Nat /\ Both(own, mask) = own
  BY DEF Group, GroupIds, Distinct
<1>3. ASSUME NEW i \in 1 .. len
      PROVE  /\ groups[names[i]].id \in Nat
             /\ Both(groups[names[i]].id, mask) = IF names[i] = n THEN own ELSE 0
  <2> DEFINE g == groups[names[i]]
  <2>1. names[i] \in DOMAIN groups
    OBVIOUS
  <2>2. g.id \in Nat /\ g.mask \in Nat /\ Both(g.id, g.mask) = g.id
    BY <2>1 DEF Group, GroupIds, Distinct
  <2>3. CASE names[i] = n
    BY <1>2, <2>2, <2>3
  <2>4. CASE names[i] # n
    <3>1. Both(g.mask, mask) = 0
      BY <2>1, <2>4 DEF Distinct
    <3> HIDE DEF g, mask
    <3>2. Both(Both(g.id, g.mask), mask) = Both(g.id, Both(g.mask, mask))
      <4>1. \A x, y, z \in Nat : Both(Both(x, y), z) = Both(x, Both(y, z))
        BY Zenon DEF Masks
      <4>2. g.id \in Nat /\ g.mask \in Nat /\ mask \in Nat
        BY <1>2, <2>2
      <4> QED  BY <4>1, <4>2, Zenon
    <3>3. Both(g.id, mask) = 0
      BY <2>2, <3>1, <3>2 DEF Masks
    <3> QED  BY <2>2, <2>4, <3>3 DEF g
  <2> QED  BY <2>3, <2>4
<1>4. f[1 .. 0] = 0
  <2>1. 1 .. 0 = {} /\ {} \in SUBSET (1 .. len)
    BY <1>2
  <2> QED  BY <1>1, <2>1 DEF Folds, Undef
<1> HIDE DEF len, mask, own
<1> DEFINE Part(k) == /\ f[1 .. k] \in Nat
                      /\ Both(f[1 .. k], mask) = IF \E i \in 1 .. k : names[i] = n THEN own ELSE 0
           Bad     == {k \in 0 .. len : ~Part(k)}
<1>5. Bad = {}
  <2> SUFFICES ASSUME Bad # {} PROVE FALSE
    OBVIOUS
  <2>1. PICK k \in Bad : \A x \in Bad : k <= x
    <3>1. Bad \subseteq Nat
      BY <1>2
    <3> HIDE DEF Bad
    <3> QED  BY <3>1, LeastNatural
  <2>2. Part(0)
    BY <1>2, <1>4 DEF Masks
  <2>3. k \in 1 .. len /\ k - 1 \in 0 .. len /\ k \in Nat /\ Part(k - 1)
    <3>1. k \in 0 .. len /\ k # 0
      BY <2>1, <2>2
    <3>2. k - 1 \in 0 .. len /\ k - 1 \notin Bad
      BY <1>2, <2>1, <3>1
    <3> QED  BY <1>2, <3>1, <3>2
  <2> DEFINE a == f[1 .. (k - 1)]
             b == groups[names[k]].id
  <2>4. /\ a \in Nat /\ b \in Nat /\ f[1 .. k] = Either(a, b)
        /\ Both(a, mask) = IF \E i \in 1 .. (k - 1) : names[i] = n THEN own ELSE 0
        /\ Both(b, mask) = IF names[k] = n THEN own ELSE 0
    BY <1>1, <1>2, <1>3, <2>3, FoldsNext
  <2>5. (\E i \in 1 .. k : names[i] = n) <=> (\E i \in 1 .. (k - 1) : names[i] = n) \/ names[k] = n
    <3>1. 1 .. k = (1 .. (k - 1)) \cup {k}
      BY <2>3
    <3> QED  BY <3>1
  <2> HIDE DEF a, b
  <2>6. f[1 .. k] \in Nat /\ Both(f[1 .. k], mask) = Either(Both(a, mask), Both(b, mask))
    <3>1. /\ \A i, j \in Nat : Either(i, j) \in Nat
          /\ \A i, j, m \in Nat : Both(Either(i, j), m) = Either(Both(i, m), Both(j, m))
      BY Zenon DEF Joins, Masks
    <3>2. a \in Nat /\ b \in Nat /\ mask \in Nat /\ f[1 .. k] = Either(a, b)
      BY <1>2, <2>4
    <3>3. Either(a, b) \in Nat /\ Both(Either(a, b), mask) = Either(Both(a, mask), Both(b, mask))
      <4>1. Either(a, b) \in Nat
        BY <3>1, <3>2, Zenon
      <4>2. Both(Either(a, b), mask) = Either(Both(a, mask), Both(b, mask))
        BY <3>1, <3>2, Zenon
      <4> QED  BY <4>1, <4>2
    <3> QED  BY <3>2, <3>3
  <2>7. /\ Either(own, own) = own /\ Either(own, 0) = own
        /\ Either(0, own) = own /\ Either(0, 0) = 0
    BY <1>2 DEF Joins, Masks, Undef
  <2>8. Part(k)
    BY <2>4, <2>5, <2>6, <2>7
  <2> QED  BY <2>1, <2>8
<1>6. len \in 0 .. len
  BY <1>2
<1>7. Part(len)
  BY <1>5, <1>6
<1> QED  BY <1>1, <1>7 DEF len, mask, own

\* What groups filter gives for groups with masks, and for one without.
LEMMA FilterOfGroups ==
  ASSUME NEW groups, NEW names \in Seq(DOMAIN groups)
  PROVE  /\ (\A i \in 1 .. Len(names) : groups[names[i]].mask # 0)
               => FilterParse(groups, names) = Joined(groups, names)
         /\ (Len(names) = 1 /\ groups[names[1]].mask = 0)
               => FilterParse(groups, names) = groups[names[1]].id
<1> DEFINE I == {i \in 1 .. Len(names) : names[i] \notin DOMAIN groups \/ groups[names[i]].mask = 0}
           k == Deciding(groups, names)
<1>1. k = IF I # {} THEN Min(I) ELSE 0
  BY DEF Deciding, SelectInSeq
<1>2. FilterParse(groups, names) = IF k = 0 THEN Joined(groups, names)
                                   ELSE IF names[k] \in DOMAIN groups THEN groups[names[k]].id
                                   ELSE Unknown
  BY DEF FilterParse
<1> HIDE DEF k
<1>3. \A i \in 1 .. Len(names) : names[i] \in DOMAIN groups
  OBVIOUS
<1>4. ASSUME \A i \in 1 .. Len(names) : groups[names[i]].mask # 0
      PROVE  FilterParse(groups, names) = Joined(groups, names)
  <2>1. I = {}
    BY <1>3, <1>4
  <2> QED  BY <1>1, <1>2, <2>1
<1>5. ASSUME Len(names) = 1, groups[names[1]].mask = 0
      PROVE  FilterParse(groups, names) = groups[names[1]].id
  <2>1. I = {1}
    BY <1>3, <1>5
  <2>2. Min({1}) = 1
    <3>1. {1} \subseteq Nat /\ {1} # {}
      OBVIOUS
    <3>2. Min({1}) \in {1}
      BY <3>1, LeastNatural
    <3> QED  BY <3>2
  <2>3. k = 1 /\ names[1] \in DOMAIN groups
    BY <1>1, <1>3, <1>5, <2>1, <2>2
  <2> QED  BY <1>2, <2>3
<1> QED  BY <1>4, <1>5

\* group get names the groups that group set was given, on either server and at
\* any time, whatever ids and masks were given, if their bits can be told apart:
\* Groups.NamesComeBack (Groups::filter_parse, Groups::get_name).
THEOREM NamesAreKept == Joins /\ Masks => (Spec => []NamesComeBack)
<1> SUFFICES ASSUME Joins, Masks PROVE Spec => []NamesComeBack
  OBVIOUS
<1>1. TInv => NamesComeBack
  <2> SUFFICES ASSUME TInv, NEW s \in Servers, Distinct(list[s]), NEW names \in Chosen, names # <<>>,
                      ToSet(names) \subseteq DOMAIN list[s],
                      Len(names) = 1 \/ Joinable(list[s], names)
               PROVE  GetName(list[s], FilterParse(list[s], names)) = ToSet(names)
    BY DEF NamesComeBack
  <2> DEFINE groups == list[s]
             id     == FilterParse(groups, names)
             with   == {n \in DOMAIN groups : groups[n].id = id /\ groups[n].mask = 0}
             both   == {n \in DOMAIN groups :
                          groups[n].mask # 0 /\ Both(id, groups[n].mask) = groups[n].id}
  <2>1. /\ groups \in [DOMAIN groups -> Group]
        /\ \A n \in DOMAIN groups : groups[n].id # 0
    BY DEF TInv, ServerOK, Listed, Undef
  <2>2. names \in Seq(DOMAIN groups) /\ Len(names) \in Nat
        /\ ToSet(names) = {names[i] : i \in 1 .. Len(names)}
    <3>1. names \in Seq(Names)
      BY GroupsAssumption
    <3>2. \A i \in 1 .. Len(names) : names[i] \in DOMAIN groups
      BY <3>1 DEF ToSet
    <3> QED  BY <3>1, <3>2 DEF ToSet
  <2>3. GetName(groups, id) = IF with # {} THEN {CHOOSE n \in with : TRUE} ELSE both
    BY DEF GetName
  <2>4. CASE Len(names) = 1 /\ groups[names[1]].mask = 0
    <3> DEFINE n == names[1]
    <3>1. n \in DOMAIN groups /\ ToSet(names) = {n} /\ id = groups[n].id
      BY <2>2, <2>4, FilterOfGroups
    <3>2. with = {n}
      BY <2>4, <3>1 DEF Distinct
    <3> HIDE DEF with, both, id, groups, n
    <3>3. GetName(groups, id) = {n}
      BY <2>3, <3>2
    <3> QED  BY <3>1, <3>3 DEF groups, id
  <2>5. CASE ~(Len(names) = 1 /\ groups[names[1]].mask = 0)
    <3>1. \A i \in 1 .. Len(names) : groups[names[i]].mask # 0
      <4>1. CASE Len(names) = 1
        BY <2>5, <4>1
      <4>2. CASE Joinable(list[s], names)
        BY <2>2, <4>2 DEF Joinable
      <4> QED  BY <4>1, <4>2
    <3>2. id = Joined(groups, names)
      BY <2>2, <3>1, FilterOfGroups
    <3>3. with = {}
      <4> SUFFICES ASSUME NEW n \in DOMAIN groups, groups[n].id = id, groups[n].mask = 0
                   PROVE  FALSE
        OBVIOUS
      <4>1. n \notin ToSet(names)
        BY <2>2, <3>1
      <4>2. CASE Len(names) = 1
        <5>1. id = groups[names[1]].id
          BY <2>1, <2>2, <3>2, <4>2, JoinedSingle
        <5>2. names[1] \in DOMAIN groups /\ names[1] # n
          BY <2>2, <4>1, <4>2
        <5> QED  BY <5>1, <5>2 DEF Distinct
      <4>3. CASE Joinable(list[s], names)
        BY <4>1, <4>3 DEF Joinable
      <4> QED  BY <4>2, <4>3
    <3>4. ASSUME NEW n \in DOMAIN groups, groups[n].mask # 0
          PROVE  Both(id, groups[n].mask) = groups[n].id <=> n \in ToSet(names)
      <4>1. Both(id, groups[n].mask)
              = IF \E i \in 1 .. Len(names) : names[i] = n THEN groups[n].id ELSE 0
        BY <2>1, <2>2, <3>1, <3>2, <3>4, JoinedBits
      <4>2. groups[n].id # 0
        BY <2>1, <3>4
      <4>3. n \in ToSet(names) <=> \E i \in 1 .. Len(names) : names[i] = n
        BY <2>2
      <4> HIDE DEF id
      <4> QED  BY <4>1, <4>2, <4>3
    <3>5. \A n \in ToSet(names) : n \in DOMAIN groups /\ groups[n].mask # 0
      BY <2>2, <3>1
    <3>6. both = ToSet(names)
      <4> HIDE DEF id, groups
      <4> QED  BY <3>4, <3>5
    <3> HIDE DEF with, both, id
    <3> QED  BY <2>3, <3>3, <3>6 DEF id
  <2> QED  BY <2>4, <2>5
<1>2. TInv /\ [Next]_vars => TInv'
  BY StepTypes
<1> QED  BY InitTypes, <1>1, <1>2, PTL DEF Spec
=============================================================================
