-------------------------------- MODULE Groups --------------------------------
(***************************************************************************)
(* The groups of the users (groups.cc, groups_interface.cc, set_group in   *)
(* user.cc, group_del and groups_clear in users.cc), and their replication *)
(* to a slave (replicator.cc, udp.cc).                                     *)
(*                                                                         *)
(* A server has its event loop, which executes the commands one after the  *)
(* other, and a detached thread for groups delete, groups clear or a dump, *)
(* which walks the users.  The mutex of the groups is held for one step at *)
(* a time, so the steps are what lies between two locks.  Clients talk to  *)
(* the master; the slave executes the datagrams that the master sends, and *)
(* UDP may lose, double and reorder these.  A datagram has no Client, and  *)
(* the threads of groups delete and groups clear take a reference to one:  *)
(* either command ends the slave.                                          *)
(***************************************************************************)
EXTENDS Naturals, Sequences, SequencesExt, FiniteSets, FiniteSetsExt, Functions

CONSTANTS
  Master, Replica,
  Users,           \* the users, on either server
  Names,           \* the names of groups
  NoName,          \* the empty word
  Unknown,         \* GROUP_UNKNOWN
  Both(_, _),      \* the operator & of C on GroupId
  Either(_, _),    \* its operator |
  Chosen,          \* the names that group set commands carry
  Scenarios        \* bounds: how many commands, threads, restarts and faults
                   \* of the network there are, whether a slave runs, and the
                   \* ids and masks that groups add commands carry

Servers    == {Master, Replica}
Everything == Users \cup Names
Undef      == 0    \* GROUP_UNDEF
GroupIds   == Nat
Group      == [id : GroupIds, mask : GroupIds]

ASSUME GroupsAssumption ==
  /\ Master # Replica
  /\ NoName \notin Names
  /\ Unknown \notin GroupIds
  /\ Users \cap Names = {}
  /\ Chosen \subseteq Seq(Names)
  /\ IsFiniteSet(Users) /\ IsFiniteSet(Names)
  /\ \A b \in Scenarios :
       b \in [commands : Nat, threads : Nat, restarts : Nat, faults : Nat, slave : BOOLEAN,
             given : SUBSET Group]

ASSUME BitsAssumption == \A i, j \in {Undef} : Either(i, j) = Undef /\ Both(i, j) = Undef

VARIABLES
  list,     \* list[s]: Groups::list, from names to ids and masks
  counter,  \* counter[s]: Groups::index_counter
  member,   \* member[s][u]: User::group
  loop,     \* loop[s]: the group set that the event loop has looked up
  job,      \* job[s]: the thread of the server, or Idle
  disk,     \* the last dump of the master
  net,      \* the datagrams under way to the slave, in the order they were sent
  left,     \* what is left of the bounds of the scenario, and whether the
            \* slave still runs
  mixed,    \* history: an add has given a mask, or an id index_counter had not
            \* reached
  loose,    \* history: users whose id is of several groups, or was stored
            \* after its group was gone, or restored without its group
  stray,    \* history: users of the master whose id was restored without its
            \* group, and has not changed since
  parted    \* history: the names and the users that faults of the network harmed

vars == <<list, counter, member, loop, job, disk, net, left, mixed, loose, stray, parted>>

Idle  == [do |-> "nothing"]
Empty == [n \in {} |-> [id |-> Undef, mask |-> 0]]
Alone == [u \in Users |-> Undef]

Init ==
  /\ list = [s \in Servers |-> Empty]
  /\ counter = [s \in Servers |-> 1]
  /\ member = [s \in Servers |-> Alone]
  /\ loop = [s \in Servers |-> Idle]
  /\ job = [s \in Servers |-> Idle]
  /\ disk = [list |-> Empty, member |-> Alone, loose |-> {}]
  /\ net = <<>>
  /\ left \in Scenarios
  /\ mixed = FALSE /\ parted = {} /\ stray = {}
  /\ loose = [s \in Servers |-> {}]

-----------------------------------------------------------------------------
\* Groups::add: a name that is there keeps its id and its mask.

Inserted(groups, n, g) ==
  [m \in DOMAIN groups \cup {n} |-> IF m \in DOMAIN groups THEN groups[m] ELSE g]

\* Mutant: the last id takes the place of the others.
MutFilterParse(groups, names) ==
  IF ToSet(names) \subseteq DOMAIN groups THEN groups[Last(names)].id ELSE Unknown

\* Groups::filter_parse: the first group without a mask is the answer, and
\* the first name that is not there refuses all; the ids of groups with masks
\* are joined.
Deciding(groups, names) ==
  SelectInSeq(names, LAMBDA n : n \notin DOMAIN groups \/ groups[n].mask = 0)

Joined(groups, names) == FoldLeft(LAMBDA id, n : Either(id, groups[n].id), Undef, names)

FilterParse(groups, names) ==
  LET k == Deciding(groups, names)
  IN  IF k = 0 THEN Joined(groups, names)
      ELSE IF names[k] \in DOMAIN groups THEN groups[names[k]].id
      ELSE Unknown

\* Groups::get_name, as the set of the names it puts together.
GetName(groups, id) ==
  LET with == {n \in DOMAIN groups : groups[n].id = id /\ groups[n].mask = 0}
  IN  IF with # {} THEN {CHOOSE n \in with : TRUE}
      ELSE {n \in DOMAIN groups : groups[n].mask # 0 /\ Both(id, groups[n].mask) = groups[n].id}

\* Groups::restore_group, for each group of a dump.
Above(groups) == Max({1} \cup {groups[n].id + 1 : n \in DOMAIN groups})

-----------------------------------------------------------------------------
\* The commands that the event loop of server s executes, and the datagrams
\* the master makes of them.

Ready(s) == loop[s] = Idle

\* A datagram is executed without a Client (UdpServer::read), and a thread of
\* groups delete and groups clear begins with a reference to it.
HasClient(s) == s = Master

Add(s, c) ==
  /\ c.do = "add" /\ Ready(s)
  /\ LET byName == c.id = Undef
         fresh  == c.name \notin DOMAIN list[s]
         g      == IF byName THEN [id |-> counter[s], mask |-> 0]
                   ELSE [id |-> c.id, mask |-> c.mask]
     IN  /\ list' = [list EXCEPT ![s] = Inserted(@, c.name, g)]
         /\ counter' = [counter EXCEPT ![s] = IF byName /\ fresh THEN @ + 1 ELSE @]
         /\ UNCHANGED <<member, loop, job, disk, loose, stray>>

Delete(s, c) ==
  /\ c.do = "delete" /\ HasClient(s) /\ Ready(s) /\ job[s] = Idle
  /\ job' = [job EXCEPT ![s] = [do |-> "delete", at |-> "groups", name |-> c.name]]
  /\ UNCHANGED <<list, counter, member, loop, disk, loose, stray>>

Clear(s, c) ==
  /\ c.do = "clear" /\ HasClient(s) /\ Ready(s) /\ job[s] = Idle
  /\ job' = [job EXCEPT ![s] = [do |-> "clear", at |-> "groups"]]
  /\ UNCHANGED <<list, counter, member, loop, disk, loose, stray>>

\* Mutant: the unknown id is stored like any other.
MutRefused(id) == FALSE

Refused(id) == id = Unknown

\* User::set_group as far as groups.unlock().
Lookup(s, c) ==
  /\ c.do = "set" /\ c.names # <<>> /\ Ready(s)
  /\ LET id == FilterParse(list[s], c.names)
     IN  IF Refused(id) THEN UNCHANGED loop
         ELSE loop' = [loop EXCEPT ![s] = [do |-> "set", command |-> c, id |-> id]]
  /\ UNCHANGED <<list, counter, member, job, disk, loose, stray>>

\* A user of the master whose id has changed is no stray any more.
Settling(s, u) == IF s = Master THEN stray \ {u} ELSE stray

\* The rest of it, with no more than User::lock.
Store(s) ==
  /\ ~Ready(s)
  /\ LET c == loop[s].command
         u == c.user
     IN  /\ member' = [member EXCEPT ![s][u] = loop[s].id]
         /\ loose' = [loose EXCEPT ![s] =
                        IF Len(c.names) > 1 \/ FilterParse(list[s], c.names) # loop[s].id
                        THEN @ \cup {u} ELSE @ \ {u}]
         /\ stray' = Settling(s, u)
         /\ loop' = [loop EXCEPT ![s] = Idle]
  /\ UNCHANGED <<list, counter, job, disk, left, mixed, parted>>

\* group set without a name, user clear, and user delete.
Reset(s, c) ==
  /\ c.do = "set" /\ c.names = <<>> /\ Ready(s)
  /\ member' = [member EXCEPT ![s][c.user] = Undef]
  /\ loose' = [loose EXCEPT ![s] = @ \ {c.user}]
  /\ stray' = Settling(s, c.user)
  /\ UNCHANGED <<list, counter, loop, job, disk>>

Execute(s, c) == Add(s, c) \/ Delete(s, c) \/ Clear(s, c) \/ Lookup(s, c) \/ Reset(s, c)

-----------------------------------------------------------------------------
\* Clients, and the network.

Commands ==
  {[do |-> "add", name |-> n, id |-> g.id, mask |-> g.mask] : n \in Names, g \in left.given}
    \cup [do : {"delete"}, name : Names] \cup {[do |-> "clear"]}
    \cup [do : {"set"}, user : Users, names : Chosen]

Threaded(c) == c.do \in {"delete", "clear"}

\* Mutant: user clear is not sent.
MutDatagrams(c) ==
  CASE c.do = "add" /\ c.id = Undef -> <<[c EXCEPT !.id = list'[Master][c.name].id]>>
    [] c.do = "delete"              -> <<[c EXCEPT !.name = NoName]>>
    [] c.do = "set"                 -> <<>>
    [] OTHER                        -> <<c>>

\* What Replicator::add sends.  For groups delete it is the word after the
\* name, and there is none; group set is sent when the group is stored.
Datagrams(c) ==
  CASE c.do = "add" /\ c.id = Undef   -> <<[c EXCEPT !.id = list'[Master][c.name].id]>>
    [] c.do = "delete"                -> <<[c EXCEPT !.name = NoName]>>
    [] c.do = "set" /\ c.names # <<>> -> <<>>
    [] OTHER                          -> <<c>>

Send(cs) == net' = IF left.slave THEN net \o cs ELSE net

\* Whom a fault that a datagram meets harms: the group that it adds, with the
\* users of the group sets under way that name it, or the user it is about.
Harm(d) ==
  LET setting == {c \in ToSet(net) : c.do = "set"}
                   \cup (IF loop[Master] = Idle THEN {} ELSE {loop[Master].command})
  IN  CASE d.do = "add" -> {d.name} \cup {c.user : c \in {c \in setting : d.name \in ToSet(c.names)}}
        [] d.do = "set" -> {d.user}
        [] OTHER        -> Everything

\* A group with a mask and no id is another one on the slave, and a group set
\* that names a harmed group harms its user.
Parting(c) ==
  CASE c.do = "add" /\ c.id = Undef /\ c.mask # 0        -> Harm(c)
    [] c.do = "set" /\ ToSet(c.names) \cap parted # {} -> Harm(c)
    [] OTHER                                            -> {}

Client(c) ==
  /\ left.commands > 0
  /\ Threaded(c) => left.threads > 0
  /\ Execute(Master, c)
  /\ Send(Datagrams(c))
  /\ left' = [left EXCEPT !.commands = @ - 1,
                          !.threads = IF Threaded(c) THEN @ - 1 ELSE @]
  /\ mixed' = (mixed \/ (c.do = "add" /\ c.id # Undef
                           /\ (c.id >= counter[Master] \/ c.mask # 0)))
  /\ parted' = parted \cup Parting(c)

StoreMaster  == Store(Master) /\ Send(<<loop[Master].command>>)
StoreReplica == Store(Replica) /\ UNCHANGED net

\* The slave takes a datagram; the first one, if the network keeps order.
Receive(k) ==
  /\ k > 1 => left.faults > 0
  /\ Execute(Replica, net[k])
  /\ net' = RemoveAt(net, k)
  /\ left' = [left EXCEPT !.faults = IF k > 1 THEN @ - 1 ELSE @]
  /\ parted' = IF k > 1 THEN parted \cup Harm(net[k]) ELSE parted
  /\ UNCHANGED mixed

\* One that asks for a thread ends the slave: ClientThread::ClientThread takes
\* its reference through a null pointer.  What is under way comes to nobody.
Crash(k) ==
  /\ k > 1 => left.faults > 0
  /\ Threaded(net[k]) /\ ~HasClient(Replica) /\ Ready(Replica)
  /\ left' = [left EXCEPT !.slave = FALSE, !.faults = IF k > 1 THEN @ - 1 ELSE @]
  /\ net' = <<>>
  /\ UNCHANGED <<list, counter, member, loop, job, disk, mixed, loose, stray, parted>>

Lose ==
  /\ net # <<>> /\ left.faults > 0
  /\ net' = Tail(net)
  /\ left' = [left EXCEPT !.faults = @ - 1]
  /\ parted' = parted \cup Harm(Head(net))
  /\ UNCHANGED <<list, counter, member, loop, job, disk, mixed, loose, stray>>

Double ==
  /\ net # <<>> /\ left.faults > 0
  /\ net' = Append(net, Head(net))
  /\ left' = [left EXCEPT !.faults = @ - 1]
  /\ parted' = parted \cup Harm(Head(net))
  /\ UNCHANGED <<list, counter, member, loop, job, disk, mixed, loose, stray>>

-----------------------------------------------------------------------------
\* The threads.

Walks(s, j) == job' = [job EXCEPT ![s] = j]

\* Groups::del under the mutex of the groups; a name that is not there ends it.
DelGroup(s) ==
  /\ job[s].do = "delete" /\ job[s].at = "groups"
  /\ LET n == job[s].name
     IN  IF n \notin DOMAIN list[s] THEN Walks(s, Idle) /\ UNCHANGED list
         ELSE /\ list' = [list EXCEPT ![s] = Restrict(@, DOMAIN @ \ {n})]
              /\ Walks(s, [do |-> "delete", at |-> "users", id |-> list[s][n].id, left |-> Users])
  /\ UNCHANGED <<counter, member, loop, disk, net, left, mixed, loose, stray, parted>>

\* Mutant: clear() does what its last line seems to do.
MutClearGroups(s) ==
  /\ job[s].do = "clear" /\ job[s].at = "groups"
  /\ list' = [list EXCEPT ![s] = Empty]
  /\ counter' = [counter EXCEPT ![s] = 1]
  /\ Walks(s, [do |-> "clear", at |-> "users", left |-> Users])
  /\ UNCHANGED <<member, loop, disk, net, left, mixed, loose, stray, parted>>

\* Groups::clear makes a Groups that it throws away: the counter goes on.
ClearGroups(s) ==
  /\ job[s].do = "clear" /\ job[s].at = "groups"
  /\ list' = [list EXCEPT ![s] = Empty]
  /\ Walks(s, [do |-> "clear", at |-> "users", left |-> Users])
  /\ UNCHANGED <<counter, member, loop, disk, net, left, mixed, loose, stray, parted>>

\* Mutant: the users of a deleted group keep their id.
MutUngroup(s, u) == UNCHANGED <<member, loose, stray>>

\* group_del and groups_clear, for one user of vector.
Ungroup(s, u) ==
  IF job[s].do = "delete" /\ member[s][u] # job[s].id THEN UNCHANGED <<member, loose, stray>>
  ELSE /\ member' = [member EXCEPT ![s][u] = Undef]
       /\ loose' = [loose EXCEPT ![s] = @ \ {u}]
       /\ stray' = Settling(s, u)

UngroupStep(s, u) ==
  /\ job[s].do \in {"delete", "clear"} /\ job[s].at = "users" /\ u \in job[s].left
  /\ Ungroup(s, u)
  /\ Walks(s, [job[s] EXCEPT !.left = @ \ {u}])
  /\ UNCHANGED <<list, counter, loop, disk, net, left, mixed, parted>>

UngroupEnd(s) ==
  /\ job[s].do \in {"delete", "clear"} /\ job[s].at = "users" /\ job[s].left = {}
  /\ Walks(s, Idle)
  /\ UNCHANGED <<list, counter, member, loop, disk, net, left, mixed, loose, stray, parted>>

\* A dump writes the groups first and then the users, one by one.
DumpGroups ==
  /\ job[Master] = Idle /\ left.threads > 0
  /\ left' = [left EXCEPT !.threads = @ - 1]
  /\ Walks(Master, [do |-> "dump", at |-> "users", list |-> list[Master], member |-> Alone,
                    loose |-> {}, left |-> Users])
  /\ UNCHANGED <<list, counter, member, loop, disk, net, mixed, loose, stray, parted>>

DumpUser(u) ==
  /\ job[Master].do = "dump" /\ u \in job[Master].left
  /\ Walks(Master, [job[Master] EXCEPT !.left = @ \ {u}, !.member[u] = member[Master][u],
                      !.loose = IF u \in loose[Master] THEN @ \cup {u} ELSE @])
  /\ UNCHANGED <<list, counter, member, loop, disk, net, left, mixed, loose, stray, parted>>

DumpEnd ==
  /\ job[Master].do = "dump" /\ job[Master].left = {}
  /\ disk' = [list |-> job[Master].list, member |-> job[Master].member,
              loose |-> job[Master].loose]
  /\ Walks(Master, Idle)
  /\ UNCHANGED <<list, counter, member, loop, net, left, mixed, loose, stray, parted>>

\* The master stops, whatever it does, and restores its last dump.  A user
\* who joined a group after the dump wrote the groups and before it wrote the
\* user comes back without the group.
Restart ==
  /\ left.restarts > 0
  /\ left' = [left EXCEPT !.restarts = @ - 1]
  /\ list' = [list EXCEPT ![Master] = disk.list]
  /\ counter' = [counter EXCEPT ![Master] = Above(disk.list)]
  /\ member' = [member EXCEPT ![Master] = disk.member]
  /\ loop' = [loop EXCEPT ![Master] = Idle]
  /\ job' = [job EXCEPT ![Master] = Idle]
  /\ LET known == {disk.list[n].id : n \in DOMAIN disk.list}
     IN  stray' = {u \in Users : disk.member[u] \notin known \cup {Undef}}
  /\ loose' = [loose EXCEPT ![Master] = disk.loose \cup stray']
  /\ parted' = Everything
  /\ UNCHANGED <<disk, net, mixed>>

Thread(s) ==
  DelGroup(s) \/ ClearGroups(s) \/ (\E u \in Users : UngroupStep(s, u)) \/ UngroupEnd(s)

Next ==
  \/ \E c \in Commands : Client(c)
  \/ \E k \in DOMAIN net : Receive(k) \/ Crash(k)
  \/ Lose \/ Double
  \/ StoreMaster \/ StoreReplica
  \/ Thread(Master)
  \/ DumpGroups \/ (\E u \in Users : DumpUser(u)) \/ DumpEnd
  \/ Restart

Spec == Init /\ [][Next]_vars
-----------------------------------------------------------------------------
Command == [do : {"add"}, name : Names, id : GroupIds, mask : GroupIds]
             \cup [do : {"delete"}, name : Names \cup {NoName}] \cup {[do |-> "clear"]}
             \cup [do : {"set"}, user : Users, names : Chosen]

TypeOK ==
  /\ list = [s \in Servers |-> list[s]]
  /\ \A s \in Servers : DOMAIN list[s] \subseteq Names /\ list[s] \in [DOMAIN list[s] -> Group]
  /\ counter \in [Servers -> Nat \ {0}]
  /\ member \in [Servers -> [Users -> GroupIds]]
  /\ loop \in [Servers -> {Idle} \cup [do : {"set"}, command : Command, id : GroupIds]]
  /\ net \in Seq(Command)
  /\ mixed \in BOOLEAN /\ stray \subseteq Users /\ parted \subseteq Everything
  /\ loose \in [Servers -> SUBSET Users]

\* While no add has come with a mask or a high id, a group added by name gets
\* an id that no group has, and no user still has from a group that is gone,
\* although deletes and clears are still walking the users, a group set has
\* stored the id of a group that was deleted since it looked it up, and dumps
\* restore old states (Groups::add, del, clear, restore_group).  The users that
\* a restart has brought back without their group are the exception.
Fresh(s) ==
  \A n \in DOMAIN list'[s] \ DOMAIN list[s] :
    LET id == list'[s][n].id
    IN  /\ \A m \in DOMAIN list[s] : list[s][m].id # id
        /\ \A u \in Users \ stray : member[s][u] # id
NewGroupIsFresh ==
  [][(left.restarts = left'.restarts /\ counter'[Master] # counter[Master] /\ ~mixed)
       => Fresh(Master)]_vars

\* Whenever no thread and no group set is at work, every user is in no group
\* or in one that is there, on either server, unless its id is of several
\* groups, or group set found the group before a delete and stored it after,
\* or a dump wrote the groups before the user joined (group_del, groups_clear,
\* set_group, ServerTopy::dump).
UsersAreGrouped ==
  \A s \in Servers : (loop[s] = Idle /\ job[s] = Idle) =>
    \A u \in Users \ loose[s] :
      member[s][u] \in {Undef} \cup {list[s][n].id : n \in DOMAIN list[s]}

\* A slave that still runs and has read everything has the groups and the
\* users of the master, but for those a fault of the network is about: a
\* datagram that is lost, doubled or overtaken harms only the group that it
\* adds, with the users put into it, or the user that it is about, although
\* group set sends names, which the slave looks up among its own groups later.
\* A restart of the master, which sends nothing about it, harms everything
\* (Replicator::add, UdpServer::read, GroupsInterface::parse_query).
SlaveFollows ==
  (left.slave /\ net = <<>> /\ \A s \in Servers : loop[s] = Idle /\ job[s] = Idle) =>
    /\ \A n \in Names \ parted :
         /\ n \in DOMAIN list[Replica] <=> n \in DOMAIN list[Master]
         /\ n \in DOMAIN list[Master] => list[Replica][n] = list[Master][n]
    /\ \A u \in Users \ parted : member[Replica][u] = member[Master][u]

\* group get names the groups that group set was given, one or several with
\* masks, if ids are in their masks, no two masks have a bit in common, and the
\* joined id is not that of a group without a mask (Groups::filter_parse against
\* Groups::get_name).
Distinct(groups) ==
  \A m \in DOMAIN groups :
    /\ groups[m].mask # 0 => Both(groups[m].id, groups[m].mask) = groups[m].id
    /\ \A n \in DOMAIN groups \ {m} : /\ groups[m].id # groups[n].id
                                      /\ Both(groups[m].mask, groups[n].mask) = 0

Joinable(groups, names) ==
  \A n \in DOMAIN groups :
    IF n \in ToSet(names) THEN groups[n].mask # 0
    ELSE groups[n].mask = 0 => groups[n].id # FilterParse(groups, names)

NamesComeBack ==
  \A s \in Servers : Distinct(list[s]) =>
    \A names \in {c \in Chosen : c # <<>> /\ ToSet(c) \subseteq DOMAIN list[s]} :
      (Len(names) = 1 \/ Joinable(list[s], names)) =>
        GetName(list[s], FilterParse(list[s], names)) = ToSet(names)
=============================================================================
