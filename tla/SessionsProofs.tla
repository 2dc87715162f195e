--------------------------- MODULE SessionsProofs ---------------------------
(***************************************************************************)
(* What the clients of the server and its PHP process keep, for any number *)
(* of connections, threads, commands and failures, and for any range of    *)
(* transaction ids.                                                        *)
(***************************************************************************)
EXTENDS Sessions, SequenceTheorems, FiniteSetTheorems, WellFoundedInduction, TLAPS

\* A connection before the server has accepted it, and one that is accepted.
ConnShape(c) ==
  /\ ~Made(c) => clients[c] = Unmade /\ outbox[c] = <<>>
  /\ ~Made(c) /\ c \notin backlog => inbox[c] = <<>>
  /\ c \in backlog => ~Made(c)
  /\ clients[c].opened => Made(c) /\ files[clients[c].fd] = c
  /\ \A i \in DOMAIN inbox[c] : inbox[c][i].conn = c /\ inbox[c][i].id \in 1 .. sent

\* A descriptor in use is that of an open connection.
FileShape ==
  \A f \in Fds : files[f] # NoConn => clients[files[f]].opened /\ clients[files[f]].fd = f

\* An actor at work: the loop works on open connections, except when it drops
\* the reference of one it has closed; a thread answers without a transaction
\* id, and one that drops its reference has answered.
ActorShape(a) ==
  LET job == jobs[a] IN
  /\ job.at = "idle" => job = Idle
  /\ job.at # "idle" => job.conn \in Conns /\ Made(job.conn)
  /\ job.query <= sent
  /\ job.at \in {"ref", "work", "test", "write"} => job.query > 0
  /\ job.at = "count" => job.seen > 0
  /\ a \in Threads => /\ job.tid = NoTid /\ job.at # "ref"
                      /\ job.at \in {"unref", "count", "last"} => job.query = 0
  /\ a = Loop => /\ job.at # "work"
                 /\ job.at # "idle" => (clients[job.conn].opened <=> job.query > 0)

\* The PHP process: a command goes out on a socket, while the bound allows.
PhpShape ==
  /\ php.at \in {"clear", "send", "resend", "read"} => php.socket # NoConn
  /\ php.at \in {"clear", "send"} => sent < bounds.queries
  /\ php.at = "resend" => sent <= bounds.queries
  /\ php.query \in {0, sent}
  /\ php.at = "read" => php.query = sent

Shape ==
  /\ \A c \in Conns : ConnShape(c)
  /\ FileShape
  /\ \A a \in Actors : ActorShape(a)
  /\ PhpShape

\* The actors that have a reference to the Client of c, other than the one the
\* open connection has.
Holders(c) ==
  {a \in Using(c) : \/ jobs[a].at \in {"unref", "count"}
                    \/ a \in Threads /\ jobs[a].at \in {"work", "test", "write"}}

\* ref_count of a Client, when no two actors have changed it at once.
Counted(c) ==
  /\ c \notin misused
  /\ \A a, b \in Counting(c) : a = b
  /\ Made(c) =>
       /\ clients[c].freed <=> ~clients[c].opened /\ Using(c) = {}
       /\ clients[c].ref_count = (IF clients[c].opened THEN 1 ELSE 0) + Cardinality(Holders(c))
  /\ \A a \in Counting(c) : IF jobs[a].at = "last" THEN jobs[a].seen > 0
                            ELSE jobs[a].seen = clients[c].ref_count

RefsCounted == \A c \in Conns \ tangled : Counted(c)

\* The id of a command, or of an answer, and its transaction id, in a resource
\* that was made when base commands were sent.
Numbered(id, tid, base) == id \in base .. sent /\ tid = (id - base) % TidLimit

\* Whatever has a transaction id and may come to the connection s.
ConnFollows(s, base) ==
  /\ \A i \in DOMAIN inbox[s] : Numbered(inbox[s][i].id, inbox[s][i].tid, base)
  /\ \A i \in DOMAIN outbox[s] :
       outbox[s][i].tid # NoTid => Numbered(outbox[s][i].query, outbox[s][i].tid, base)
  /\ \A a \in Actors : jobs[a].conn = s /\ jobs[a].tid # NoTid =>
       Numbered(jobs[a].query, jobs[a].tid, base)

\* ... was numbered by the resource whose socket it is.
Follows(base) ==
  /\ php.tid = (sent - base) % TidLimit
  /\ \A i \in DOMAIN php.got :
       php.got[i].tid # NoTid => Numbered(php.got[i].query, php.got[i].tid, base)
  /\ php.socket # NoConn => ConnFollows(php.socket, base)

TidsFollow == \E base \in 0 .. sent : Follows(base)

\* The commands that are still to be answered, each in one place.
Stray(c, i) == outbox[c][i].conn # c

OneAnswer ==
  /\ \A c, d \in Conns : \A i \in DOMAIN inbox[c], j \in DOMAIN inbox[d] :
       inbox[c][i].id = inbox[d][j].id => c = d /\ i = j
  /\ \A c \in Conns, a \in Actors : \A i \in DOMAIN inbox[c] : inbox[c][i].id # jobs[a].query
  /\ \A a, b \in Actors : jobs[a].query = jobs[b].query /\ jobs[a].query > 0 => a = b

\* A piece on the wrong connection is the last its answer will have.
StraysAreLast ==
  \A c \in Conns : \A i \in DOMAIN outbox[c] :
    /\ outbox[c][i].query \in 1 .. sent
    /\ Stray(c, i) =>
       /\ \A d \in Conns : \A j \in DOMAIN inbox[d] : inbox[d][j].id # outbox[c][i].query
       /\ \A a \in Actors : jobs[a].query = outbox[c][i].query =>
            jobs[a].at = "test" /\ ~clients[jobs[a].conn].opened
       /\ \A j \in DOMAIN outbox[c] :
            Stray(c, j) /\ outbox[c][j].query = outbox[c][i].query => i = j
-------------------------------------------------------------------------------
\* TypeOK, but for what it says of two parts of the state at once.
Typed ==
  /\ bounds \in Scenarios
  /\ backlog \subseteq Conns /\ hungup \subseteq Conns
  /\ inbox \in [Conns -> Seq(Query)] /\ outbox \in [Conns -> Seq(Piece)]
  /\ files \in [Fds -> Conns \cup {NoConn}]
  /\ clients \in [Conns -> Client]
  /\ jobs \in [Actors -> Job]
  /\ tangled \subseteq Conns /\ misused \subseteq Conns
  /\ faults \in Nat /\ sent \in 0 .. bounds.queries + 1
  /\ php \in Resource
  /\ result \in [query : Nat, pieces : Seq(Piece)]

IInv == Typed /\ Shape

\* The constants, and what a scenario is.
LEMMA Bounded ==
  ASSUME Typed
  PROVE  /\ IsFiniteSet(Conns) /\ Cardinality(Conns) \in Nat /\ Conns = 1 .. Cardinality(Conns)
         /\ Fds = Conns /\ NoConn \notin Conns /\ Loop \notin Threads /\ IsFiniteSet(Threads)
         /\ TidLimit \in Nat \ {0} /\ bounds.conns \in 1 .. Cardinality(Conns)
         /\ bounds.threads \subseteq Threads /\ bounds.kinds \subseteq Kind
         /\ bounds.waits \subseteq BOOLEAN /\ bounds.sizes \subseteq Nat
         /\ bounds.queries \in Nat /\ sent \in Nat
<1>1. IsFiniteSet(Conns) /\ Cardinality(Conns) \in Nat /\ Conns = 1 .. Cardinality(Conns)
  BY ClientsAssumption, FS_CardinalityType
<1>2. bounds \in Scenarios
  BY DEF Typed
<1>3. bounds.queries \in Nat
  BY <1>2, ClientsAssumption
<1>4. sent \in Nat
  BY <1>3 DEF Typed
<1> QED
  BY <1>1, <1>2, <1>3, <1>4, ClientsAssumption DEF Fds

\* The least of a set of numbers.
LEMMA Least ==
  ASSUME NEW S, S \subseteq Nat, S # {}
  PROVE  Min(S) \in S
<1>1. \E x \in S : \A y \in S : <<y, x>> \notin OpToRel(<, Nat)
  BY NatLessThanWellFounded, WFMin
<1>2. PICK x \in S : \A y \in S : ~(y < x)
  BY <1>1 DEF OpToRel
<1>3. \A y \in S : x <= y
  BY <1>2
<1> QED
  BY <1>3 DEF Min

\* What is appended to a sequence comes last.
LEMMA Appended ==
  ASSUME NEW S, NEW s \in Seq(S), NEW e \in S
  PROVE  /\ Append(s, e) \in Seq(S)
         /\ DOMAIN s = 1 .. Len(s) /\ Len(s) \in Nat
         /\ DOMAIN Append(s, e) = 1 .. Len(s) + 1
         /\ \A i \in DOMAIN s : Append(s, e)[i] = s[i]
         /\ Append(s, e)[Len(s) + 1] = e
BY AppendProperties, LenProperties

\* What is left of a sequence when a part is read.
LEMMA Rest ==
  ASSUME NEW S, NEW s \in Seq(S), NEW n \in 1 .. Len(s)
  PROVE  /\ SubSeq(s, n + 1, Len(s)) \in Seq(S)
         /\ \A i \in DOMAIN SubSeq(s, n + 1, Len(s)) :
              /\ i \in Nat /\ n + i \in DOMAIN s
              /\ SubSeq(s, n + 1, Len(s))[i] = s[n + i]
<1> DEFINE r == SubSeq(s, n + 1, Len(s))
<1>1. Len(s) \in Nat /\ DOMAIN s = 1 .. Len(s) /\ s \in [1 .. Len(s) -> S]
  BY LenProperties
<1>2. n + 1 \in Int /\ Len(s) \in Int /\ \A i \in n + 1 .. Len(s) : s[i] \in S
  BY <1>1
<1>3. /\ r \in Seq(S)
      /\ Len(r) = IF n + 1 <= Len(s) THEN Len(s) - (n + 1) + 1 ELSE 0
      /\ \A i \in 1 .. Len(s) - (n + 1) + 1 : r[i] = s[n + 1 + i - 1]
  BY <1>2, SubSeqProperties
<1>4. DOMAIN r = 1 .. Len(r)
  BY <1>3, LenProperties
<1> HIDE DEF r
<1>a. Len(r) = IF n + 1 <= Len(s) THEN Len(s) - (n + 1) + 1 ELSE 0
  BY <1>3
<1>b. \A i \in 1 .. Len(s) - (n + 1) + 1 : r[i] = s[n + 1 + i - 1]
  BY <1>3
<1>c. Len(s) \in Nat
  BY <1>1
<1>5. ASSUME NEW i \in DOMAIN r PROVE i \in Nat /\ n + i \in DOMAIN s /\ r[i] = s[n + i]
  <2>0. n \in Nat /\ n >= 1 /\ n <= Len(s)
    BY <1>1
  <2>1. Len(r) = Len(s) - n /\ i \in 1 .. Len(s) - n
    <3>1. i \in 1 .. Len(r)
      BY <1>4
    <3>2. Len(r) = Len(s) - n
      BY <1>a, <1>c, <2>0
    <3> QED
      BY <3>1, <3>2
  <2>2. r[i] = s[n + 1 + i - 1] /\ n + 1 + i - 1 = n + i
    BY <1>b, <1>c, <2>0, <2>1, SMTT(30)
  <2> QED
    BY <1>1, <2>0, <2>1, <2>2
<1> QED
  BY <1>3, <1>5 DEF r

\* What has been read of a sequence, after what had been read before.
LEMMA Joint ==
  ASSUME NEW S, NEW s \in Seq(S), NEW t \in Seq(S), NEW n \in 1 .. Len(s)
  PROVE  LET u == t \o SubSeq(s, 1, n) IN
         /\ u \in Seq(S) /\ u # <<>> /\ 1 \in DOMAIN u
         /\ \A i \in DOMAIN u : (\E j \in DOMAIN t : u[i] = t[j]) \/ (\E j \in DOMAIN s : u[i] = s[j])
<1> DEFINE r == SubSeq(s, 1, n)
           u == t \o r
<1>1. /\ Len(s) \in Nat /\ DOMAIN s = 1 .. Len(s) /\ s \in [1 .. Len(s) -> S]
      /\ Len(t) \in Nat /\ DOMAIN t = 1 .. Len(t)
  BY LenProperties
<1>2. 1 \in Int /\ n \in Int /\ n >= 1 /\ n <= Len(s) /\ \A i \in 1 .. n : s[i] \in S
  BY <1>1
<1>3. /\ r \in Seq(S)
      /\ Len(r) = IF 1 <= n THEN n - 1 + 1 ELSE 0
      /\ \A i \in 1 .. n - 1 + 1 : r[i] = s[1 + i - 1]
  BY <1>2, SubSeqProperties
<1>4. Len(r) = n /\ \A i \in 1 .. n : r[i] = s[i]
  BY <1>2, <1>3
<1> HIDE DEF r
<1>5. /\ u \in Seq(S) /\ Len(u) = Len(t) + Len(r)
      /\ \A i \in 1 .. Len(t) + Len(r) : u[i] = IF i <= Len(t) THEN t[i] ELSE r[i - Len(t)]
  BY <1>3, ConcatProperties
<1>6. DOMAIN u = 1 .. Len(t) + n
  BY <1>4, <1>5, LenProperties
<1>7. ASSUME NEW i \in DOMAIN u
      PROVE  (\E j \in DOMAIN t : u[i] = t[j]) \/ (\E j \in DOMAIN s : u[i] = s[j])
  <2>1. CASE i <= Len(t)
    BY <1>1, <1>2, <1>4, <1>5, <1>6, <2>1
  <2>2. CASE i > Len(t)
    <3>1. i - Len(t) \in 1 .. n /\ u[i] = r[i - Len(t)]
      BY <1>1, <1>2, <1>4, <1>5, <1>6, <2>2
    <3> QED
      BY <1>1, <1>2, <1>4, <3>1
  <2> QED
    BY <1>1, <1>2, <1>6, <2>1, <2>2
<1>8. u # <<>> /\ 1 \in DOMAIN u
  <2>1. Len(u) > 0
    BY <1>1, <1>2, <1>4, <1>5
  <2> QED
    BY <1>1, <1>2, <1>6, <2>1, EmptySeq
<1> QED
  BY <1>5, <1>7, <1>8 DEF r

-----------------------------------------------------------------------------
\* A new socket is that of a connection that was never made.
LEMMA Sockets ==
  ASSUME Typed, NEW s \in Conns \cup {NoConn}, SocketOpen(s)
  PROVE  /\ faults' \in Nat
         /\ s = NoConn => backlog' = backlog
         /\ s # NoConn => s \in Conns /\ s \notin backlog /\ ~Made(s) /\ backlog' = backlog \cup {s}
<1>1. Unused \subseteq Conns /\ Unused \subseteq Nat
  BY Bounded DEF Unused
<1>2. Unused # {} => Min(Unused) \in Unused
  BY <1>1, Least
<1> QED
  BY <1>1, <1>2, Bounded, SMTT(30) DEF SocketOpen, Unused, Typed

\* A descriptor is free for each connection that has yet to be accepted.
LEMMA FreeDescriptor ==
  ASSUME IInv, NEW c \in backlog
  PROVE  LET f == Min({g \in Fds : files[g] = NoConn}) IN f \in Fds /\ files[f] = NoConn
<1>1. c \in Conns /\ ~Made(c)
  BY DEF IInv, Typed, Shape, ConnShape
<1>2. {g \in Fds : files[g] = NoConn} # {}
  <2> SUFFICES ASSUME \A g \in Fds : files[g] # NoConn PROVE FALSE
    OBVIOUS
  <2>1. \A g \in Fds : files[g] \in Conns \ {c} /\ clients[files[g]].fd = g
    <3> TAKE g \in Fds
    <3>1. files[g] \in Conns /\ clients[files[g]].opened /\ clients[files[g]].fd = g
      BY DEF IInv, Typed, Shape, FileShape
    <3> QED
      BY <1>1, <3>1 DEF IInv, Shape, ConnShape, Unmade
  <2>2. files \in [Fds -> Conns \ {c}]
    BY <2>1 DEF IInv, Typed
  <2>3. IsFiniteSet(Conns \ {c}) /\ Cardinality(Conns \ {c}) < Cardinality(Fds) /\ IsFiniteSet(Fds)
    <3>1. IsFiniteSet(Conns) /\ Cardinality(Conns) \in Nat /\ Fds = Conns
      BY Bounded DEF IInv
    <3>2. IsFiniteSet(Conns \ {c}) /\ Cardinality(Conns \ {c}) = Cardinality(Conns) - 1
      BY <1>1, <3>1, FS_RemoveElement
    <3> QED
      BY <3>1, <3>2
  <2>4. \E x, y \in Fds : x # y /\ files[x] = files[y]
    BY <2>2, <2>3, FS_PigeonHole
  <2> QED
    BY <2>1, <2>4
<1>3. {g \in Fds : files[g] = NoConn} \subseteq Nat
  BY Bounded DEF IInv
<1> QED
  BY <1>2, <1>3, Least

\* TypeOK: the descriptors of the open connections.
LEMMA Opened ==
  ASSUME IInv
  PROVE  TypeOK
<1>1. ASSUME NEW c \in Conns
      PROVE  clients[c].opened <=> Accepted(c) /\ files[clients[c].fd] = c
  <2>1. ASSUME clients[c].opened PROVE Accepted(c) /\ files[clients[c].fd] = c
    <3>1. clients[c].fd \in Fds /\ files[clients[c].fd] = c
      BY <2>1 DEF IInv, Typed, Shape, ConnShape, Client, Made
    <3> QED
      BY <3>1 DEF Accepted, Range, IInv, Typed
  <2>2. ASSUME Accepted(c) PROVE clients[c].opened
    <3>1. PICK f \in Fds : files[f] = c
      BY <2>2 DEF Accepted, Range, IInv, Typed
    <3> QED
      BY <3>1, Bounded DEF IInv, Shape, FileShape
  <2> QED
    BY <2>1, <2>2
<1>2. jobs[Loop].at # "work"
  BY DEF IInv, Shape, ActorShape, Actors
<1> QED
  BY <1>1, <1>2 DEF IInv, Typed, TypeOK

\* The initial state.
LEMMA IInvInit ==
  ASSUME Init
  PROVE  IInv
<1>1. bounds \in Scenarios /\ bounds.queries \in Nat /\ bounds.faults \in Nat /\ TidLimit \in Nat \ {0}
  BY ClientsAssumption DEF Init, ClientsInit
<1>2. Loop \notin Threads /\ NoConn \notin Conns
  BY ClientsAssumption
<1>3. /\ clients \in [Conns -> Client] /\ jobs \in [Actors -> Job]
      /\ inbox \in [Conns -> Seq(Query)] /\ outbox \in [Conns -> Seq(Piece)]
  BY <1>1, EmptySeq DEF Init, ClientsInit, Unmade, Client, NoFd, Job, Idle, NoTid, Stops
<1>4. php \in Resource /\ result \in [query : Nat, pieces : Seq(Piece)]
  <2>1. <<>> \in Seq(Piece)
    BY EmptySeq
  <2>2. php \in Resource
    <3>1. php = [at |-> "none", socket |-> NoConn, tid |-> 0, query |-> 0,
                 kind |-> "now", size |-> 0, wait |-> FALSE, got |-> <<>>]
      BY DEF Init, Fresh
    <3> QED
      BY <1>1, <2>1, <3>1 DEF Resource, Stop, Kind
  <2> QED
    BY <2>1, <2>2 DEF Init, Nothing
<1>5. Typed
  BY <1>1, <1>3, <1>4 DEF Typed, Init, ClientsInit
<1>6. \A c \in Conns : ConnShape(c)
  BY EmptySeq DEF Init, ClientsInit, ConnShape, Unmade, Made, NoFd
<1>7. FileShape /\ PhpShape
  BY <1>1 DEF Init, ClientsInit, FileShape, PhpShape, Fresh
<1>8. \A a \in Actors : ActorShape(a)
  BY <1>1, <1>2 DEF Init, ClientsInit, ActorShape, Idle, NoTid
<1> QED
  BY <1>5, <1>6, <1>7, <1>8 DEF IInv, Shape

-----------------------------------------------------------------------------
\* The types, step by step.

\* An actor that is to drop its reference.
Dropped(a) ==
  /\ jobs'[a].at = "unref" /\ jobs'[a].conn = jobs[a].conn
  /\ jobs'[a].query = 0 /\ jobs'[a].tid = NoTid /\ jobs'[a].seen = 0

\* The job of an actor that drops its reference.
LEMMA Dropping ==
  ASSUME NEW c
  PROVE  [Idle EXCEPT !.at = "unref", !.conn = c] =
           [at |-> "unref", conn |-> c, query |-> 0, tid |-> NoTid, size |-> 0, out |-> 0, seen |-> 0]
<1>1. ASSUME NEW x, x = [Idle EXCEPT !.at = "unref", !.conn = c]
      PROVE  x = [at |-> "unref", conn |-> c, query |-> 0, tid |-> NoTid, size |-> 0, out |-> 0, seen |-> 0]
  BY <1>1 DEF Idle
<1> QED
  BY <1>1

\* The job of the loop on a command.
LEMMA Working ==
  ASSUME NEW q
  PROVE  Answering(q) = [at |-> "test", conn |-> q.conn, query |-> q.id, tid |-> q.tid, size |-> q.size,
                         out |-> 0, seen |-> 0]
<1>1. ASSUME NEW x, x = Answering(q)
      PROVE  x = [at |-> "test", conn |-> q.conn, query |-> q.id, tid |-> q.tid, size |-> q.size,
                  out |-> 0, seen |-> 0]
  BY <1>1 DEF Answering, Idle
<1> QED
  BY <1>1

\* An actor whose answer is out, or given up.
LEMMA AnsweredJobs ==
  ASSUME IInv, NEW a \in Actors, jobs[a].at # "idle", Answered(a)
  PROVE  /\ jobs' \in [Actors -> Job]
         /\ \A b \in Actors \ {a} : jobs'[b] = jobs[b]
         /\ a = Loop => jobs'[a] = Idle
         /\ a # Loop => Dropped(a)
<1>1. jobs \in [Actors -> Job] /\ jobs[a].conn \in Conns
  BY DEF IInv, Typed, Shape, ActorShape
<1>2. [Idle EXCEPT !.at = "unref", !.conn = jobs[a].conn] =
        [at |-> "unref", conn |-> jobs[a].conn, query |-> 0, tid |-> NoTid,
         size |-> 0, out |-> 0, seen |-> 0]
  BY Dropping
<1>3. TidLimit \in Nat
  BY Bounded DEF IInv
<1>4. Idle \in Job /\ [at |-> "unref", conn |-> jobs[a].conn, query |-> 0, tid |-> NoTid,
                       size |-> 0, out |-> 0, seen |-> 0] \in Job
  BY <1>1, <1>3 DEF Idle, Job, Stops, NoTid
<1>5. a # Loop => jobs'[a] = [at |-> "unref", conn |-> jobs[a].conn, query |-> 0, tid |-> NoTid,
                              size |-> 0, out |-> 0, seen |-> 0]
  BY <1>1, <1>2 DEF Answered
<1> QED
  BY <1>1, <1>4, <1>5, <1>2 DEF Answered, Dropped

\* The job of the loop on a command, or once it has closed a connection.
LEMMA ReceivedJobs ==
  ASSUME IInv, NEW c \in Conns, clients[c].opened, inbox[c] # <<>>
  PROVE  LET q == Parsed(inbox[c]) IN
         /\ q.conn = c /\ q.id \in 1 .. sent /\ q.tid \in 0 .. TidLimit /\ q.kind \in Kind /\ q.size \in Nat
         /\ q.id = inbox[c][1].id /\ q.tid = inbox[c][1].tid /\ 1 \in DOMAIN inbox[c]
         /\ Answering(q) = [at |-> "test", conn |-> c, query |-> q.id, tid |-> q.tid, size |-> q.size,
                            out |-> 0, seen |-> 0]
         /\ [Answering(q) EXCEPT !.at = "ref", !.seen = clients[c].ref_count,
                                 !.size = IF q.kind = "late" THEN q.size ELSE 0] =
              [at |-> "ref", conn |-> c, query |-> q.id, tid |-> q.tid,
               size |-> IF q.kind = "late" THEN q.size ELSE 0, out |-> 0, seen |-> clients[c].ref_count]
<1> DEFINE q == Parsed(inbox[c])
<1>1. inbox[c] \in Seq(Query)
  BY DEF IInv, Typed
<1>2. Head(inbox[c]) = inbox[c][1] /\ 1 \in DOMAIN inbox[c]
  BY <1>1, LenProperties, EmptySeq
<1>3. inbox[c][1] \in Query
  BY <1>1, <1>2, LenProperties
<1>4. inbox[c][1].conn = c /\ inbox[c][1].id \in 1 .. sent
  BY <1>2 DEF IInv, Shape, ConnShape
<1>5. q = Head(inbox[c]) \/ q = [Head(inbox[c]) EXCEPT !.kind = "now", !.size = 1]
  BY DEF Parsed
<1>6. /\ q.conn = c /\ q.id = inbox[c][1].id /\ q.tid = inbox[c][1].tid
      /\ q.kind \in Kind /\ q.size \in Nat /\ q.tid \in 0 .. TidLimit
  <2>1. CASE q = Head(inbox[c])
    BY <1>2, <1>3, <1>4, <2>1 DEF Query
  <2>2. CASE q = [Head(inbox[c]) EXCEPT !.kind = "now", !.size = 1]
    BY <1>2, <1>3, <1>4, <2>2 DEF Query, Kind
  <2> QED
    BY <1>5, <2>1, <2>2
<1> HIDE DEF q
<1>7. Answering(q) = [at |-> "test", conn |-> c, query |-> q.id, tid |-> q.tid, size |-> q.size,
                      out |-> 0, seen |-> 0]
  BY <1>6, Working
<1>8. ASSUME NEW x, NEW y, NEW n,
             x = [at |-> "test", conn |-> c, query |-> q.id, tid |-> q.tid, size |-> q.size,
                  out |-> 0, seen |-> 0],
             y = [x EXCEPT !.at = "ref", !.seen = clients[c].ref_count, !.size = n]
      PROVE  y = [at |-> "ref", conn |-> c, query |-> q.id, tid |-> q.tid,
                  size |-> n, out |-> 0, seen |-> clients[c].ref_count]
  BY <1>8
<1>9. [Answering(q) EXCEPT !.at = "ref", !.seen = clients[c].ref_count,
                           !.size = IF q.kind = "late" THEN q.size ELSE 0] =
        [at |-> "ref", conn |-> c, query |-> q.id, tid |-> q.tid,
         size |-> IF q.kind = "late" THEN q.size ELSE 0, out |-> 0, seen |-> clients[c].ref_count]
  BY <1>7, <1>8
<1> QED
  BY <1>2, <1>4, <1>6, <1>7, <1>9 DEF q

\* What is written is a piece.
LEMMA Pieces ==
  ASSUME IInv, NEW a \in Actors, jobs[a].at # "idle"
  PROVE  NextPiece(jobs[a]) \in Piece
<1>1. jobs[a] \in Job /\ jobs[a].conn \in Conns
  BY DEF IInv, Typed, Shape, ActorShape
<1> QED
  BY <1>1 DEF NextPiece, Piece, Job

\* The types, in the steps of the loop.
LEMMA LoopTypes ==
  ASSUME IInv, LoopStep, UNCHANGED phpVars
  PROVE  Typed'
<1>1. PICK c \in Conns : Connect(c) \/ Receive(c) \/ Error(c)
  BY DEF LoopStep
<1> USE DEF phpVars
<1>2. TidLimit \in Nat \ {0} /\ Loop \in Actors /\ Fds \subseteq Nat
  BY Bounded DEF IInv, Actors
<1>3. CASE Connect(c)
  <2>1. c \in backlog
    BY <1>3 DEF Connect
  <2> DEFINE f == Min({g \in Fds : files[g] = NoConn})
  <2>2. f \in Fds
    BY <2>1, FreeDescriptor
  <2>3. NewClient(f) \in Client
    BY <2>2 DEF NewClient, Client
  <2>4. files' = [files EXCEPT ![f] = c] /\ clients' = [clients EXCEPT ![c] = NewClient(f)]
    BY <1>3 DEF Connect
  <2> HIDE DEF f
  <2>5. /\ files' \in [Fds -> Conns \cup {NoConn}]
        /\ clients' \in [Conns -> Client]
    BY <2>2, <2>3, <2>4 DEF IInv, Typed
  <2> QED
    BY <1>3, <2>5 DEF Connect, IInv, Typed
<1>4. ASSUME Closed(c), Made(c)
      PROVE  /\ clients' \in [Conns -> Client]
             /\ files' \in [Fds -> Conns \cup {NoConn}]
             /\ jobs' \in [Actors -> Job]
             /\ tangled' = tangled
  <2>1. clients[c] \in Client
    BY DEF IInv, Typed
  <2>2. [clients[c] EXCEPT !.opened = FALSE] \in Client
    BY <2>1 DEF Client
  <2>3. [Idle EXCEPT !.at = "unref", !.conn = c] \in Job
    <3>1. [at |-> "unref", conn |-> c, query |-> 0, tid |-> NoTid, size |-> 0, out |-> 0, seen |-> 0] \in Job
      BY <1>2 DEF Job, Stops, NoTid
    <3> QED
      BY <3>1, Dropping
  <2> QED
    BY <1>2, <1>4, <2>2, <2>3 DEF Closed, IInv, Typed
<1>5. CASE Receive(c)
  <2> DEFINE q == Parsed(inbox[c])
  <2>1. clients[c].opened /\ inbox[c] # <<>> /\ Made(c)
    BY <1>5 DEF Receive, IInv, Shape, ConnShape
  <2>2. clients[c].ref_count \in Nat
    BY DEF IInv, Typed, Client
  <2>3. /\ Answering(q) \in Job
        /\ [Answering(q) EXCEPT !.at = "ref", !.seen = clients[c].ref_count,
                                !.size = IF q.kind = "late" THEN q.size ELSE 0] \in Job
    <3>1. /\ q.id \in 1 .. sent /\ q.tid \in 0 .. TidLimit /\ q.size \in Nat
          /\ (IF q.kind = "late" THEN q.size ELSE 0) \in Nat
          /\ Answering(q) = [at |-> "test", conn |-> c, query |-> q.id, tid |-> q.tid, size |-> q.size,
                             out |-> 0, seen |-> 0]
          /\ [Answering(q) EXCEPT !.at = "ref", !.seen = clients[c].ref_count,
                                  !.size = IF q.kind = "late" THEN q.size ELSE 0] =
              [at |-> "ref", conn |-> c, query |-> q.id, tid |-> q.tid,
               size |-> IF q.kind = "late" THEN q.size ELSE 0, out |-> 0, seen |-> clients[c].ref_count]
      BY <2>1, ReceivedJobs
    <3>2. q.id \in Nat /\ sent \in Nat
      BY <3>1, Bounded DEF IInv
    <3> HIDE DEF q
    <3> QED
      BY <2>2, <3>1, <3>2 DEF Job, Stops
  <2>4. inbox' \in [Conns -> Seq(Query)]
    BY <1>5, EmptySeq DEF Receive, IInv, Typed
  <2>5. misused' \subseteq Conns
    BY <1>5 DEF Receive, Use, IInv, Typed
  <2>6. UNCHANGED <<bounds, backlog, hungup, outbox, faults>>
    BY <1>5 DEF Receive
  <2>7. /\ clients' \in [Conns -> Client]
        /\ files' \in [Fds -> Conns \cup {NoConn}]
        /\ jobs' \in [Actors -> Job]
        /\ tangled' \subseteq Conns
    <3> HIDE DEF q
    <3>1. CASE Closed(c)
      BY <1>4, <2>1, <3>1 DEF IInv, Typed
    <3>2. CASE UNCHANGED <<files, clients>> /\ jobs' = [jobs EXCEPT ![Loop] = Answering(q)] /\ UNCHANGED tangled
      BY <1>2, <2>3, <3>2 DEF IInv, Typed
    <3>3. CASE UNCHANGED <<files, clients, jobs, tangled>>
      BY <3>3 DEF IInv, Typed
    <3>4. CASE /\ jobs' = [jobs EXCEPT ![Loop] =
                        [Answering(q) EXCEPT !.at = "ref", !.seen = clients[c].ref_count,
                                             !.size = IF q.kind = "late" THEN q.size ELSE 0]]
               /\ Overlap(Loop, c) /\ UNCHANGED <<files, clients>>
      BY <1>2, <2>3, <3>4 DEF IInv, Typed, Overlap
    <3> QED
      BY <1>5, <3>1, <3>2, <3>3, <3>4 DEF Receive, q
  <2> QED
    BY <2>4, <2>5, <2>6, <2>7 DEF IInv, Typed
<1>6. CASE Error(c)
  <2>1. Made(c) /\ Closed(c)
    BY <1>6 DEF Error, IInv, Shape, ConnShape
  <2>2. misused' \subseteq Conns
    BY <1>6 DEF Error, Use, IInv, Typed
  <2> QED
    BY <1>4, <1>6, <2>1, <2>2 DEF Error, IInv, Typed
<1> QED
  BY <1>1, <1>3, <1>5, <1>6

\* The types, in the steps of an answer and of a reference.
LEMMA ActorTypes ==
  ASSUME IInv, NEW a \in Actors, ActorStep(a), UNCHANGED phpVars
  PROVE  Typed'
<1> USE DEF phpVars
<1>0. TidLimit \in Nat \ {0} /\ Loop \in Actors /\ Threads \subseteq Actors /\ bounds.threads \subseteq Threads
  BY Bounded DEF IInv, Actors
<1>1. jobs[a] \in Job /\ (jobs[a].at # "idle" => jobs[a].conn \in Conns)
  BY DEF IInv, Typed, Shape, ActorShape
<1>2. ASSUME jobs[a].at # "idle", Use(jobs[a].conn) PROVE misused' \subseteq Conns
  BY <1>1, <1>2 DEF Use, IInv, Typed
<1>3. CASE Test(a)
  <2>1. jobs' \in [Actors -> Job]
    <3>1. CASE Goto(a, "write")
      BY <1>1, <3>1 DEF Goto, Job, Stops, IInv, Typed
    <3> QED
      BY <1>3, <3>1, AnsweredJobs DEF Test
  <2> QED
    BY <1>2, <1>3, <2>1 DEF Test, IInv, Typed
<1>4. CASE Write(a)
  <2>0. jobs[a].at # "idle"
    BY <1>4 DEF Write
  <2>1. jobs' \in [Actors -> Job]
    <3>1. CASE jobs' = [jobs EXCEPT ![a].at = "test", ![a].out = @ + 1]
      <4>1. [jobs[a] EXCEPT !.at = "test", !.out = jobs[a].out + 1] \in Job
        <5>1. jobs[a].out + 1 \in Nat
          BY <1>1 DEF Job
        <5> QED
          BY <1>1, <5>1 DEF Job, Stops
      <4>2. jobs' = [jobs EXCEPT ![a] = [jobs[a] EXCEPT !.at = "test", !.out = jobs[a].out + 1]]
        BY <3>1 DEF IInv, Typed
      <4> QED
        BY <4>1, <4>2 DEF IInv, Typed
    <3>2. CASE Answered(a)
      BY <2>0, <3>2, AnsweredJobs
    <3> QED
      BY <1>4, <3>1, <3>2 DEF Write
  <2>2. outbox' \in [Conns -> Seq(Piece)]
    <3> DEFINE d == files[clients[jobs[a].conn].fd]
    <3>1. outbox' = outbox \/ (d # NoConn /\ outbox' = [outbox EXCEPT ![d] = Append(@, NextPiece(jobs[a]))])
      BY <1>4 DEF Write
    <3>2. CASE outbox' = outbox
      BY <3>2 DEF IInv, Typed
    <3>3. CASE d \in DOMAIN outbox /\ outbox' = [outbox EXCEPT ![d] = Append(@, NextPiece(jobs[a]))]
      <4>1. outbox[d] \in Seq(Piece) /\ NextPiece(jobs[a]) \in Piece
        BY <2>0, <3>3, Pieces DEF IInv, Typed
      <4>2. Append(outbox[d], NextPiece(jobs[a])) \in Seq(Piece)
        BY <4>1, AppendProperties
      <4> QED
        BY <3>3, <4>2 DEF IInv, Typed
    <3>4. CASE d \notin DOMAIN outbox /\ outbox' = [outbox EXCEPT ![d] = Append(@, NextPiece(jobs[a]))]
      BY <3>4 DEF IInv, Typed
    <3> QED
      BY <3>1, <3>2, <3>3, <3>4
  <2> QED
    BY <1>2, <1>4, <2>0, <2>1, <2>2 DEF Write, IInv, Typed
<1>5. CASE GiveUp(a)
  <2>1. jobs' \in [Actors -> Job]
    BY <1>5, AnsweredJobs DEF GiveUp
  <2>2. faults' \in Nat
    BY <1>5 DEF GiveUp, IInv, Typed
  <2> QED
    BY <1>2, <1>5, <2>1, <2>2 DEF GiveUp, IInv, Typed
<1>6. CASE Unref(a)
  <2>1. clients[jobs[a].conn].ref_count \in Nat /\ jobs[a].conn \in Conns
    BY <1>1, <1>6 DEF Unref, IInv, Typed, Client
  <2>2. jobs' \in [Actors -> Job] /\ tangled' \subseteq Conns
    BY <1>1, <1>6, <2>1 DEF Unref, Job, Stops, Overlap, IInv, Typed
  <2> QED
    BY <1>2, <1>6, <2>2 DEF Unref, IInv, Typed
<1>7. CASE Count(a)
  <2>1. jobs[a].conn \in Conns /\ clients[jobs[a].conn] \in Client /\ jobs[a].seen - 1 \in Nat
    BY <1>1, <1>7 DEF Count, IInv, Typed, Job, Shape, ActorShape
  <2>2. jobs' \in [Actors -> Job]
    BY <1>1, <1>7 DEF Count, Goto, Job, Stops, IInv, Typed
  <2>3. clients' \in [Conns -> Client]
    BY <1>7, <2>1 DEF Count, Client, IInv, Typed
  <2> QED
    BY <1>2, <1>7, <2>2, <2>3 DEF Count, IInv, Typed
<1>8. CASE DeleteThis(a)
  <2>1. jobs[a].conn \in Conns /\ clients[jobs[a].conn] \in Client
    BY <1>1, <1>8 DEF DeleteThis, IInv, Typed
  <2>2. jobs' \in [Actors -> Job]
    <3>1. [jobs[a] EXCEPT !.at = "test", !.size = 1, !.seen = 0] \in Job
      BY <1>1 DEF Job, Stops
    <3>2. Idle \in Job
      BY <1>0 DEF Job, Stops, Idle, NoTid
    <3> QED
      BY <1>8, <3>1, <3>2 DEF DeleteThis, IInv, Typed
  <2>3. clients' \in [Conns -> Client]
    BY <1>8, <2>1 DEF DeleteThis, Client, IInv, Typed
  <2> QED
    BY <1>2, <1>8, <2>2, <2>3 DEF DeleteThis, IInv, Typed
<1>9. CASE a \in Threads /\ Work(a)
  <2>1. jobs' \in [Actors -> Job]
    BY <1>1, <1>9 DEF Work, Goto, Job, Stops, IInv, Typed
  <2> QED
    BY <1>9, <2>1 DEF Work, IInv, Typed
<1>10. CASE a \in Threads /\ Ref(a)
  <2> DEFINE job == jobs[Loop]
  <2>1. job \in Job /\ job.conn \in Conns /\ clients[job.conn] \in Client
    BY <1>0, <1>10 DEF Ref, IInv, Typed, Shape, ActorShape
  <2>2. jobs' \in [Actors -> Job]
    <3>1. [job EXCEPT !.at = "work", !.tid = NoTid, !.seen = 0] \in Job /\ Idle \in Job
          /\ [job EXCEPT !.at = "unref"] \in Job
      <4>1. TidLimit \in 0 .. TidLimit /\ NoConn \in Conns \cup {NoConn}
        BY <1>0
      <4>2. Idle \in Job
        BY <1>0 DEF Job, Stops, Idle, NoTid
      <4>3. [job EXCEPT !.at = "work", !.tid = NoTid, !.seen = 0] \in Job
        BY <2>1, <4>1 DEF Job, Stops, NoTid
      <4> QED
        BY <2>1, <4>2, <4>3 DEF Job, Stops
    <3> HIDE DEF job
    <3>2. CASE jobs' = [jobs EXCEPT ![Loop] = Idle,
                                    ![a] = [job EXCEPT !.at = "work", !.tid = NoTid, !.seen = 0]]
      BY <3>1, <3>2 DEF IInv, Typed
    <3>3. CASE jobs' = [jobs EXCEPT ![Loop] = [job EXCEPT !.at = "unref"]]
      BY <3>1, <3>3 DEF IInv, Typed
    <3> QED
      BY <1>0, <1>10, <3>2, <3>3 DEF Ref, Goto, job, IInv, Typed
  <2>3. clients' \in [Conns -> Client]
    <3>1. job.seen + 1 \in Nat
      BY <2>1 DEF Job
    <3>2. [clients[job.conn] EXCEPT !.ref_count = job.seen + 1] \in Client
      BY <2>1, <3>1 DEF Client
    <3>3. clients' = [clients EXCEPT ![job.conn] = [clients[job.conn] EXCEPT !.ref_count = job.seen + 1]]
      BY <1>10 DEF Ref, IInv, Typed
    <3> QED
      BY <2>1, <3>2, <3>3 DEF IInv, Typed
  <2>4. misused' \subseteq Conns
    BY <1>10, <2>1 DEF Ref, Use, IInv, Typed
  <2> QED
    BY <1>10, <2>2, <2>3, <2>4 DEF Ref, IInv, Typed
<1> QED
  BY <1>3, <1>4, <1>5, <1>6, <1>7, <1>8, <1>9, <1>10 DEF ActorStep

\* connection_reconnect closes nothing.
LEMMA Reconnects ==
  ASSUME Typed, NEW s \in Conns \cup {NoConn}, Reconnect(s)
  PROVE  /\ hungup' = hungup /\ faults' \in Nat /\ backlog' \subseteq Conns
         /\ s = NoConn => backlog' = backlog
         /\ s # NoConn => s \in Conns /\ s \notin backlog /\ ~Made(s) /\ backlog' = backlog \cup {s}
<1>1. SocketOpen(s) /\ hungup' = hungup
  BY DEF Reconnect, ConnectionClose
<1> QED
  BY <1>1, Sockets DEF Typed

\* The resource as a command goes out.
LEMMA SentPhp ==
  ASSUME Typed, NEW s \in Conns \cup {NoConn}
  PROVE  /\ Sent(s) \in Resource /\ NextTid \in 0 .. TidLimit - 1
         /\ Sent(s).at = (IF php.wait THEN "read" ELSE "idle")
         /\ Sent(s).socket = s /\ Sent(s).tid = NextTid /\ Sent(s).query = sent + 1
         /\ Sent(s).got = php.got
         /\ [Sent(s) EXCEPT !.at = "resend", !.kind = php.kind, !.size = php.size] \in Resource
         /\ s \in Conns => Command(s) \in Query
         /\ Command(s).id = sent + 1 /\ Command(s).conn = s /\ Command(s).tid = NextTid
<1>1. TidLimit \in Nat \ {0} /\ sent \in Nat /\ php \in Resource
  BY Bounded DEF Typed
<1>2. NextTid \in 0 .. TidLimit - 1 /\ sent + 1 \in Nat
  BY <1>1 DEF NextTid, Resource
<1>3. Sent(s) \in Resource
  BY <1>1, <1>2 DEF Sent, Resource, Stop, Kind
<1>4. /\ Sent(s).at = (IF php.wait THEN "read" ELSE "idle")
      /\ Sent(s).socket = s /\ Sent(s).tid = NextTid /\ Sent(s).query = sent + 1
      /\ Sent(s).got = php.got
  BY <1>1 DEF Sent, Resource
<1>5. [Sent(s) EXCEPT !.at = "resend", !.kind = php.kind, !.size = php.size] \in Resource
  <2>1. php.kind \in Kind /\ php.size \in Nat
    BY <1>1 DEF Resource
  <2> QED
    BY <1>3, <2>1 DEF Resource, Stop
<1>6. /\ s \in Conns => Command(s) \in Query
      /\ Command(s).id = sent + 1 /\ Command(s).conn = s /\ Command(s).tid = NextTid
  <2>1. php.kind \in Kind /\ php.size \in Nat /\ NextTid \in 0 .. TidLimit
    BY <1>1, <1>2 DEF Resource
  <2> HIDE DEF NextTid
  <2> QED
    BY <1>2, <2>1 DEF Command, Query
<1> QED
  BY <1>2, <1>3, <1>4, <1>5, <1>6

\* The types, in the steps of the PHP process.
LEMMA PhpTypes ==
  ASSUME IInv, PhpStep
  PROVE  Typed'
<1>1. /\ php \in Resource /\ TidLimit \in Nat \ {0} /\ NoConn \notin Conns /\ sent \in Nat
      /\ bounds.queries \in Nat /\ bounds.kinds \subseteq Kind /\ bounds.sizes \subseteq Nat
      /\ bounds.waits \subseteq BOOLEAN /\ <<>> \in Seq(Piece)
  BY Bounded, EmptySeq DEF IInv, Typed
<1>2. \A s \in Conns \cup {NoConn} : Fresh(s) \in Resource
  BY <1>1 DEF Fresh, Resource, Stop, Kind
<1>3. \A s \in Conns \cup {NoConn}, at \in Stop :
        /\ [php EXCEPT !.at = at] \in Resource
        /\ [php EXCEPT !.socket = s] \in Resource
        /\ [php EXCEPT !.at = at, !.socket = s] \in Resource
        /\ [php EXCEPT !.at = at, !.got = <<>>] \in Resource
        /\ [php EXCEPT !.at = at, !.got = <<>>, !.socket = s] \in Resource
  BY <1>1 DEF Resource
<1>4. {"none", "idle", "clear", "send", "read"} \subseteq Stop
  BY DEF Stop
<1> USE DEF IInv
<1>5. CASE TopyConnect
  <2>1. PICK s \in Conns \cup {NoConn} : SocketOpen(s) /\ php' = IF s = NoConn THEN php ELSE Fresh(s)
    BY <1>5 DEF TopyConnect
  <2>2. backlog' \subseteq Conns /\ faults' \in Nat
    BY <2>1, Sockets DEF Typed
  <2> QED
    BY <1>1, <1>2, <1>5, <2>1, <2>2 DEF TopyConnect, Typed, serverVars
<1>6. CASE TopyReconnect
  <2>1. PICK s \in Conns \cup {NoConn} : Reconnect(s) /\ php' = [php EXCEPT !.socket = s]
    BY <1>6 DEF TopyReconnect
  <2>2. hungup' = hungup /\ backlog' \subseteq Conns /\ faults' \in Nat
    BY <2>1, Reconnects
  <2> QED
    BY <1>3, <1>4, <1>6, <2>1, <2>2 DEF TopyReconnect, Typed, serverVars
<1>7. CASE ConnectionFree
  <2>1. php' \in Resource
    <3>1. Fresh(NoConn) \in Resource /\ "none" \in Stop
      BY <1>2 DEF Stop
    <3> QED
      BY <1>7, <3>1 DEF ConnectionFree, Resource
  <2>2. hungup' \subseteq Conns
    BY <1>1, <1>7 DEF ConnectionFree, Typed, Resource
  <2> QED
    BY <1>7, <2>1, <2>2 DEF ConnectionFree, Typed, serverVars
<1>8. ASSUME NEW kind \in bounds.kinds, NEW size \in bounds.sizes, NEW wait \in bounds.waits,
             TopyQuery(kind, size, wait)
      PROVE  Typed'
  <2>1. kind \in Kind /\ size \in Nat /\ wait \in BOOLEAN
    BY <1>1
  <2>2. PICK at \in Stop : php' = [php EXCEPT !.kind = kind, !.size = size, !.wait = wait, !.got = <<>>, !.at = at]
    BY <1>4, <1>8 DEF TopyQuery
  <2>3. php' \in Resource
    BY <1>1, <2>1, <2>2 DEF Resource
  <2> QED
    BY <1>8, <2>3 DEF TopyQuery, Typed, serverVars
<1>9. CASE ConnectionClear
  <2>1. php' \in Resource
    BY <1>1, <1>3, <1>4, <1>9 DEF ConnectionClear
  <2>2. outbox' \in [Conns -> Seq(Piece)]
    BY <1>1, <1>9, ZenonT(30) DEF ConnectionClear, Typed
  <2> QED
    BY <1>9, <2>1, <2>2 DEF ConnectionClear, Typed, serverVars
<1>10. CASE QuerySend
  <2> DEFINE s == php.socket
  <2>1. s \in Conns
    BY <1>1, <1>10 DEF QuerySend, Resource, Shape, PhpShape
  <2>2. php' \in Resource
    BY <1>10, <2>1, SentPhp DEF QuerySend
  <2>3. inbox' \in [Conns -> Seq(Query)]
    <3>1. Command(s) \in Query /\ inbox[s] \in Seq(Query)
      BY <2>1, SentPhp DEF Typed
    <3>2. Append(inbox[s], Command(s)) \in Seq(Query)
      BY <3>1, AppendProperties
    <3>3. inbox' = inbox \/ inbox' = [inbox EXCEPT ![s] = Append(inbox[s], Command(s))]
      BY <1>10 DEF QuerySend
    <3> HIDE DEF s
    <3> QED
      BY <2>1, <3>2, <3>3 DEF Typed
  <2>4. sent' \in 0 .. bounds'.queries + 1 /\ UNCHANGED bounds
    BY <1>1, <1>10 DEF QuerySend, Shape, PhpShape, serverVars
  <2> QED
    BY <1>10, <2>2, <2>3, <2>4 DEF QuerySend, Typed, serverVars
<1>11. CASE QuerySendSafe
  <2>1. PICK s \in Conns \cup {NoConn} :
          /\ Reconnect(s)
          /\ IF s = NoConn
             THEN /\ php' = [php EXCEPT !.at = "idle", !.socket = NoConn]
                  /\ UNCHANGED <<inbox, sent>>
             ELSE /\ inbox' = [inbox EXCEPT ![s] = Append(@, Command(s))]
                  /\ php' = Sent(s)
                  /\ sent' = sent + 1
    BY <1>11 DEF QuerySendSafe
  <2>2. hungup' = hungup /\ backlog' \subseteq Conns /\ faults' \in Nat
    BY <2>1, Reconnects
  <2>3. php' \in Resource
    <3>1. [php EXCEPT !.at = "idle", !.socket = NoConn] \in Resource
      BY <1>3, <1>4
    <3>2. Sent(s) \in Resource
      BY SentPhp
    <3> QED
      BY <2>1, <3>1, <3>2
  <2>4. inbox' \in [Conns -> Seq(Query)]
    <3>1. CASE s = NoConn
      BY <2>1, <3>1 DEF Typed
    <3>2. CASE s \in Conns
      <4>1. Command(s) \in Query /\ inbox[s] \in Seq(Query)
        BY <3>2, SentPhp DEF Typed
      <4>2. Append(inbox[s], Command(s)) \in Seq(Query)
        BY <4>1, AppendProperties
      <4> QED
        BY <1>1, <2>1, <3>2, <4>2 DEF Typed
    <3> QED
      BY <3>1, <3>2
  <2>5. sent' \in 0 .. bounds'.queries + 1 /\ UNCHANGED bounds
    BY <1>1, <1>11, <2>1 DEF QuerySendSafe, Shape, PhpShape, serverVars, Typed
  <2> QED
    BY <1>11, <2>2, <2>3, <2>4, <2>5 DEF QuerySendSafe, Typed, serverVars
<1>12. CASE TopyQueryRead
  <2>1. php' \in Resource
    BY <1>1, <1>3, <1>4, <1>12 DEF TopyQueryRead
  <2> QED
    BY <1>12, <2>1 DEF TopyQueryRead, Typed, serverVars
<1>13. CASE ReadResult
  <2> DEFINE s == php.socket
  <2>1. s \in Conns /\ outbox[s] \in Seq(Piece) /\ php.got \in Seq(Piece)
    BY <1>1, <1>13 DEF ReadResult, Resource, Shape, PhpShape, Typed
  <2>2. PICK n \in 1 .. Len(outbox[s]) :
          LET got == php.got \o SubSeq(outbox[s], 1, n)
              answer == Head(got) IN
          /\ outbox' = [outbox EXCEPT ![s] = SubSeq(@, n + 1, Len(@))]
          /\ \/ php' = [php EXCEPT !.got = got] /\ UNCHANGED <<backlog, hungup, faults, result>>
             \/ /\ php' = [php EXCEPT !.at = "idle", !.got = <<>>]
                /\ result' = IF answer.first THEN [query |-> php.query, pieces |-> got] ELSE result
                /\ UNCHANGED <<backlog, hungup, faults>>
             \/ /\ \E r \in Conns \cup {NoConn} :
                     Reconnect(r) /\ php' = [php EXCEPT !.at = "idle", !.got = <<>>, !.socket = r]
                /\ UNCHANGED result
    BY <1>13 DEF ReadResult
  <2> DEFINE got == php.got \o SubSeq(outbox[s], 1, n)
  <2>3. got \in Seq(Piece)
    BY <2>1, Joint
  <2>4. SubSeq(outbox[s], n + 1, Len(outbox[s])) \in Seq(Piece)
    BY <2>1, Rest
  <2>5. outbox' \in [Conns -> Seq(Piece)]
    BY <2>1, <2>2, <2>4 DEF Typed
  <2>6. /\ php' \in Resource /\ result' \in [query : Nat, pieces : Seq(Piece)]
        /\ backlog' \subseteq Conns /\ hungup' \subseteq Conns /\ faults' \in Nat
    <3> HIDE DEF got
    <3>1. CASE php' = [php EXCEPT !.got = got] /\ UNCHANGED <<backlog, hungup, faults, result>>
      BY <1>1, <2>3, <3>1 DEF Resource, Typed
    <3>2. CASE /\ php' = [php EXCEPT !.at = "idle", !.got = <<>>]
               /\ result' = IF Head(got).first THEN [query |-> php.query, pieces |-> got] ELSE result
               /\ UNCHANGED <<backlog, hungup, faults>>
      <4>1. php' \in Resource /\ php.query \in Nat
        BY <1>1, <1>3, <1>4, <3>2 DEF Resource
      <4>2. [query |-> php.query, pieces |-> got] \in [query : Nat, pieces : Seq(Piece)]
        BY <2>3, <4>1
      <4> QED
        BY <3>2, <4>1, <4>2 DEF Typed
    <3>3. CASE /\ \E r \in Conns \cup {NoConn} :
                     Reconnect(r) /\ php' = [php EXCEPT !.at = "idle", !.got = <<>>, !.socket = r]
               /\ UNCHANGED result
      <4>1. PICK r \in Conns \cup {NoConn} :
              Reconnect(r) /\ php' = [php EXCEPT !.at = "idle", !.got = <<>>, !.socket = r]
        BY <3>3
      <4>2. backlog' \subseteq Conns /\ hungup' = hungup /\ faults' \in Nat
        BY <4>1, Reconnects
      <4>3. php' \in Resource
        BY <1>3, <1>4, <4>1
      <4> QED
        BY <3>3, <4>2, <4>3 DEF Typed
    <3> QED
      BY <2>2, <3>1, <3>2, <3>3 DEF got
  <2> QED
    BY <1>13, <2>5, <2>6 DEF ReadResult, Typed, serverVars
<1>14. CASE ReadEnd
  <2>1. PICK r \in Conns \cup {NoConn} :
          Reconnect(r) /\ php' = [php EXCEPT !.at = "idle", !.got = <<>>, !.socket = r]
    BY <1>14 DEF ReadEnd
  <2>2. hungup' = hungup /\ backlog' \subseteq Conns /\ faults' \in Nat
    BY <2>1, Reconnects
  <2> QED
    BY <1>3, <1>4, <1>14, <2>1, <2>2 DEF ReadEnd, Typed, serverVars
<1>15. CASE ReadError
  <2>1. php' \in Resource
    BY <1>1, <1>3, <1>4, <1>15 DEF ReadError
  <2> QED
    BY <1>15, <2>1 DEF ReadError, Typed, serverVars
<1> QED
  BY <1>5, <1>6, <1>7, <1>8, <1>9, <1>10, <1>11, <1>12, <1>13, <1>14, <1>15 DEF PhpStep

-----------------------------------------------------------------------------
\* The shape of the state, step by step.

\* What an open connection is.
LEMMA Accepts ==
  ASSUME IInv, NEW c \in Conns
  PROVE  /\ clients[c].opened => Made(c) /\ clients[c].fd \in Fds /\ files[clients[c].fd] = c
         /\ Accepted(c) <=> clients[c].opened
         /\ Connected(c) => c \in backlog \/ Made(c)
         /\ clients[c].opened \in BOOLEAN
<1>1. clients[c].opened => Made(c) /\ files[clients[c].fd] = c
  BY DEF IInv, Shape, ConnShape
<1>2. clients[c].fd \in Fds \cup {NoFd} /\ clients[c].opened \in BOOLEAN
  BY DEF IInv, Typed, Client
<1>3. Accepted(c) <=> clients[c].opened
  <2>1. clients[c].opened <=> Accepted(c) /\ files[clients[c].fd] = c
    BY Opened DEF TypeOK
  <2>2. ASSUME Accepted(c) PROVE clients[c].opened
    <3>1. PICK f \in Fds : files[f] = c
      BY <2>2 DEF Accepted, Range, IInv, Typed
    <3> QED
      BY <3>1, Bounded DEF IInv, Shape, FileShape
  <2> QED
    BY <2>1, <2>2
<1> QED
  BY <1>1, <1>2, <1>3 DEF Made, Connected

\* The shape, in the steps of the loop.
LEMMA LoopShape ==
  ASSUME IInv, LoopStep, UNCHANGED phpVars
  PROVE  Shape'
<1> USE DEF IInv, phpVars
<1>1. PICK c \in Conns : Connect(c) \/ Receive(c) \/ Error(c)
  BY DEF LoopStep
<1>2. Loop \in Actors /\ Loop \notin Threads /\ NoConn \notin Conns /\ Fds \subseteq Nat \ {0}
  BY Bounded DEF Actors, Fds
<1>3. PhpShape'
  <2>1. UNCHANGED <<php, sent, bounds>>
    BY <1>1 DEF Connect, Receive, Error
  <2> QED
    BY <2>1 DEF Shape, PhpShape
<1>4. CASE Connect(c)
  <2>1. c \in backlog /\ ~Made(c) /\ clients[c] = Unmade /\ jobs[Loop].at = "idle"
    BY <1>4 DEF Connect, Shape, ConnShape
  <2>2. PICK f \in Fds : /\ files[f] = NoConn /\ files' = [files EXCEPT ![f] = c]
                         /\ clients' = [clients EXCEPT ![c] = NewClient(f)]
    BY <1>4, <2>1, FreeDescriptor DEF Connect
  <2>3. /\ clients'[c] = NewClient(f) /\ files'[f] = c
        /\ \A d \in Conns \ {c} : clients'[d] = clients[d]
        /\ \A g \in Fds \ {f} : files'[g] = files[g]
        /\ backlog' = backlog \ {c} /\ UNCHANGED <<inbox, outbox, jobs, sent>>
    BY <1>4, <2>2 DEF Connect, Typed
  <2>4. /\ clients'[c].fd = f /\ clients'[c].opened /\ f # NoFd
    BY <1>2, <2>3 DEF NewClient, NoFd
  <2>5. ~clients[c].opened
    BY <2>1 DEF Unmade
  <2>6. \A d \in Conns : ConnShape(d)'
    <3> TAKE d \in Conns
    <3>1. CASE d = c
      BY <2>1, <2>3, <2>4, <3>1 DEF Shape, ConnShape, Made
    <3>2. CASE d # c
      <4>1. /\ clients'[d] = clients[d] /\ outbox'[d] = outbox[d] /\ inbox'[d] = inbox[d]
            /\ d \in backlog' <=> d \in backlog
        BY <2>3, <3>2
      <4>2. ConnShape(d)
        BY DEF Shape
      <4>3. clients[d].opened => files'[clients[d].fd] = d
        <5>1. clients[d].opened => clients[d].fd \in Fds /\ files[clients[d].fd] = d
          BY Accepts
        <5>2. d # NoConn
          BY <1>2
        <5> QED
          BY <2>2, <2>3, <5>1, <5>2
      <4> QED
        BY <2>3, <4>1, <4>2, <4>3 DEF ConnShape, Made
    <3> QED
      BY <3>1, <3>2
  <2>7. FileShape'
    <3> SUFFICES ASSUME NEW g \in Fds, files'[g] # NoConn
                 PROVE  clients'[files'[g]].opened /\ clients'[files'[g]].fd = g
      BY DEF FileShape
    <3>1. CASE g = f
      BY <2>3, <2>4, <3>1
    <3>2. CASE g # f
      <4>1. files'[g] = files[g] /\ files[g] \in Conns /\ files[g] # c
        BY <2>3, <2>5, <3>2 DEF Shape, FileShape, Typed
      <4> QED
        BY <2>3, <4>1, <1>2 DEF Shape, FileShape
    <3> QED
      BY <3>1, <3>2
  <2>8. \A a \in Actors : ActorShape(a)'
    <3> TAKE a \in Actors
    <3>1. jobs[a].at # "idle" => jobs[a].conn # c
      BY <2>1 DEF Shape, ActorShape
    <3> QED
      BY <2>1, <2>3, <3>1 DEF Shape, ActorShape, Made
  <2> QED
    BY <1>3, <2>6, <2>7, <2>8 DEF Shape
<1>5. CASE (Receive(c) \/ Error(c)) /\ Closed(c)
  <2> DEFINE f == clients[c].fd
  <2>1. clients[c].opened /\ Made(c) /\ f \in Fds /\ files[f] = c /\ jobs[Loop].at = "idle"
    BY <1>5, Accepts DEF Receive, Error
  <2>2. /\ inbox' = inbox \/ inbox' = [inbox EXCEPT ![c] = <<>>]
        /\ UNCHANGED <<outbox, backlog, sent>>
    BY <1>5 DEF Receive, Error
  <2>3. /\ clients'[c].fd = clients[c].fd /\ clients'[c].opened = FALSE
        /\ \A d \in Conns \ {c} : clients'[d] = clients[d]
        /\ files'[f] = NoConn /\ \A g \in Fds \ {f} : files'[g] = files[g]
        /\ \A a \in Actors \ {Loop} : jobs'[a] = jobs[a]
        /\ jobs'[Loop] = [at |-> "unref", conn |-> c, query |-> 0, tid |-> NoTid,
                          size |-> 0, out |-> 0, seen |-> 0]
    BY <1>2, <1>5, <2>1, Dropping DEF Closed, Typed, Client
  <2>4. \A d \in Conns : inbox'[d] = inbox[d] \/ inbox'[d] = <<>>
    BY <2>2 DEF Typed
  <2>5. \A d \in Conns : ConnShape(d)'
    <3> TAKE d \in Conns
    <3>1. \A i \in DOMAIN inbox'[d] : inbox'[d][i].conn = d /\ inbox'[d][i].id \in 1 .. sent
      BY <2>4, EmptySeq DEF Shape, ConnShape
    <3>2. CASE d = c
      BY <2>1, <2>2, <2>3, <3>1, <3>2 DEF Shape, ConnShape, Made
    <3>3. CASE d # c
      <4>1. clients[d].opened => clients[d].fd # f
        BY <2>1, <3>3, Accepts
      <4> QED
        BY <2>2, <2>3, <2>4, <3>1, <3>3, <4>1, Accepts DEF Shape, ConnShape, Made
    <3> QED
      BY <3>2, <3>3
  <2>6. FileShape'
    <3> SUFFICES ASSUME NEW g \in Fds, files'[g] # NoConn
                 PROVE  clients'[files'[g]].opened /\ clients'[files'[g]].fd = g
      BY DEF FileShape
    <3>1. g # f /\ files'[g] = files[g]
      BY <2>3
    <3>2. files[g] # c /\ files[g] \in Conns
      BY <3>1 DEF Shape, FileShape, Typed
    <3> QED
      BY <2>3, <3>1, <3>2 DEF Shape, FileShape
  <2>7. \A a \in Actors : ActorShape(a)'
    <3> TAKE a \in Actors
    <3>1. \A d \in Conns : Made(d)' <=> Made(d)
      BY <2>3 DEF Made
    <3>2. CASE a = Loop
      BY <1>2, <2>1, <2>2, <2>3, <3>1, <3>2, Bounded DEF ActorShape
    <3>3. CASE a # Loop
      BY <1>2, <2>2, <2>3, <3>1, <3>3 DEF ActorShape, Shape
    <3> QED
      BY <3>2, <3>3
  <2> QED
    BY <1>3, <2>5, <2>6, <2>7 DEF Shape
<1>6. CASE Receive(c) /\ ~Closed(c)
  <2> DEFINE q == Parsed(inbox[c])
  <2>1. clients[c].opened /\ Made(c) /\ inbox[c] # <<>> /\ jobs[Loop].at = "idle"
    BY <1>6, Accepts DEF Receive
  <2>2. /\ UNCHANGED <<outbox, backlog, sent, files, clients>>
        /\ inbox' = [inbox EXCEPT ![c] = <<>>]
        /\ \/ jobs' = jobs
           \/ jobs' = [jobs EXCEPT ![Loop] = Answering(q)]
           \/ jobs' = [jobs EXCEPT ![Loop] =
                          [Answering(q) EXCEPT !.at = "ref", !.seen = clients[c].ref_count,
                                               !.size = IF q.kind = "late" THEN q.size ELSE 0]]
    BY <1>6 DEF Receive
  <2>3. \A a \in Actors \ {Loop} : jobs'[a] = jobs[a]
    BY <2>2 DEF Typed
  <2>4. \/ jobs'[Loop] = jobs[Loop]
        \/ \E at \in {"test", "ref"}, size, seen \in Nat :
             jobs'[Loop] = [at |-> at, conn |-> c, query |-> q.id, tid |-> q.tid, size |-> size,
                            out |-> 0, seen |-> seen]
    <3>1. /\ q.size \in Nat /\ (IF q.kind = "late" THEN q.size ELSE 0) \in Nat /\ clients[c].ref_count \in Nat
          /\ Answering(q) = [at |-> "test", conn |-> c, query |-> q.id, tid |-> q.tid, size |-> q.size,
                             out |-> 0, seen |-> 0]
          /\ [Answering(q) EXCEPT !.at = "ref", !.seen = clients[c].ref_count,
                                  !.size = IF q.kind = "late" THEN q.size ELSE 0] =
              [at |-> "ref", conn |-> c, query |-> q.id, tid |-> q.tid,
               size |-> IF q.kind = "late" THEN q.size ELSE 0, out |-> 0, seen |-> clients[c].ref_count]
      BY <2>1, ReceivedJobs DEF Typed, Client
    <3> HIDE DEF q
    <3>2. 0 \in Nat /\ jobs \in [Actors -> Job]
      BY DEF Typed
    <3> QED
      <4>1. CASE jobs' = jobs
        BY <4>1
      <4>2. CASE jobs' = [jobs EXCEPT ![Loop] = Answering(q)]
        <5>1. jobs'[Loop] = Answering(q)
          BY <1>2, <3>2, <4>2
        <5> QED
          BY <3>1, <3>2, <5>1
      <4>3. CASE jobs' = [jobs EXCEPT ![Loop] =
                            [Answering(q) EXCEPT !.at = "ref", !.seen = clients[c].ref_count,
                                                 !.size = IF q.kind = "late" THEN q.size ELSE 0]]
        <5>1. jobs'[Loop] = [Answering(q) EXCEPT !.at = "ref", !.seen = clients[c].ref_count,
                                                 !.size = IF q.kind = "late" THEN q.size ELSE 0]
          BY <1>2, <3>2, <4>3
        <5> DEFINE size == IF q.kind = "late" THEN q.size ELSE 0
        <5>2. jobs'[Loop] = [at |-> "ref", conn |-> c, query |-> q.id, tid |-> q.tid, size |-> size,
                             out |-> 0, seen |-> clients[c].ref_count]
          BY <3>1, <5>1
        <5>3. size \in Nat
          BY <3>1
        <5> HIDE DEF size
        <5> QED
          BY <3>1, <5>2, <5>3
      <4> QED
        BY <2>2, <4>1, <4>2, <4>3 DEF q
  <2>5. q.id \in 1 .. sent
    BY <2>1, ReceivedJobs
  <2> HIDE DEF q
  <2>6. \A d \in Conns : ConnShape(d)'
    BY <2>1, <2>2, EmptySeq DEF Shape, ConnShape, Made, Typed
  <2>7. FileShape'
    BY <2>2 DEF Shape, FileShape
  <2>8. \A a \in Actors : ActorShape(a)'
    <3> TAKE a \in Actors
    <3>1. CASE a # Loop \/ jobs'[a] = jobs[a]
      BY <2>2, <2>3, <3>1 DEF Shape, ActorShape, Made
    <3>2. CASE a = Loop /\ jobs'[a] # jobs[a]
      <4>1. PICK at \in {"test", "ref"}, size \in Nat, seen \in Nat :
              jobs'[Loop] = [at |-> at, conn |-> c, query |-> q.id, tid |-> q.tid, size |-> size,
                             out |-> 0, seen |-> seen]
        BY <2>4, <3>2
      <4>2. sent \in Nat
        BY Bounded
      <4> QED
        BY <1>2, <2>1, <2>2, <2>5, <3>2, <4>1, <4>2 DEF ActorShape, Made
    <3> QED
      BY <3>1, <3>2
  <2> QED
    BY <1>3, <2>6, <2>7, <2>8 DEF Shape
<1> QED
  BY <1>1, <1>4, <1>5, <1>6 DEF Error

\* What the steps of an answer and of a reference leave alone.
LEMMA ActorFrame ==
  ASSUME IInv, NEW a \in Actors, ActorStep(a), UNCHANGED phpVars
  PROVE  /\ UNCHANGED <<bounds, backlog, hungup, inbox, files, php, sent, result>>
         /\ \A c \in Conns : /\ clients'[c].fd = clients[c].fd
                             /\ clients'[c].opened = clients[c].opened
                             /\ (Made(c)' <=> Made(c))
                             /\ ~Made(c) => clients'[c] = clients[c]
<1> USE DEF IInv
<1>1. UNCHANGED <<bounds, backlog, hungup, inbox, files, php, sent, result>>
  BY DEF ActorStep, Test, Write, GiveUp, Unref, Count, DeleteThis, Work, Ref, phpVars
<1>2. \/ clients' = clients
      \/ \E c \in Conns : \E n : Made(c) /\ clients' = [clients EXCEPT ![c].ref_count = n]
      \/ \E c \in Conns : Made(c) /\ clients' = [clients EXCEPT ![c].freed = TRUE]
  <2>1. \A b \in Actors : jobs[b].at # "idle" => jobs[b].conn \in Conns /\ Made(jobs[b].conn)
    BY DEF Shape, ActorShape
  <2>2. Loop \in Actors
    BY DEF Actors
  <2>3. CASE Test(a) \/ Write(a) \/ GiveUp(a) \/ Unref(a) \/ Work(a)
    BY <2>3 DEF Test, Write, GiveUp, Unref, Work
  <2>4. CASE Count(a)
    BY <2>1, <2>4 DEF Count
  <2>5. CASE DeleteThis(a)
    BY <2>1, <2>5 DEF DeleteThis
  <2>6. CASE Ref(a)
    BY <2>1, <2>2, <2>6 DEF Ref
  <2> QED
    BY <2>3, <2>4, <2>5, <2>6 DEF ActorStep
<1>3. \A c \in Conns : /\ clients'[c].fd = clients[c].fd
                       /\ clients'[c].opened = clients[c].opened
                       /\ ~Made(c) => clients'[c] = clients[c]
  BY <1>2 DEF Typed, Client
<1> QED
  BY <1>1, <1>3 DEF Made

\* What a step makes of the jobs: one actor goes on with its own, or is done with
\* it; or the loop gives its own to a thread.
LEMMA ActorJobs ==
  ASSUME IInv, NEW a \in Actors, ActorStep(a), UNCHANGED phpVars, NEW b \in Actors
  PROVE  \/ jobs'[b] = jobs[b]
         \/ /\ jobs'[b] = Idle
            /\ jobs'[b].at = "idle" /\ jobs'[b].conn = NoConn /\ jobs'[b].query = 0 /\ jobs'[b].tid = NoTid
         \/ /\ b # Loop /\ a = b /\ jobs[b].at \in {"test", "write"}
            /\ Dropped(b)
         \/ /\ jobs[b].at # "idle" /\ jobs'[b] \in Job
            /\ jobs'[b].conn = jobs[b].conn /\ jobs'[b].query = jobs[b].query
            /\ jobs'[b].tid = jobs[b].tid
            /\ \/ jobs[b].at = "work" /\ jobs'[b].at = "test"
               \/ jobs[b].at = "test" /\ jobs'[b].at = "write" /\ clients[jobs[b].conn].opened
               \/ jobs[b].at = "write" /\ jobs'[b].at = "test"
               \/ /\ jobs[b].at = "unref" /\ jobs'[b].at = "count"
                  /\ jobs'[b].seen = clients[jobs[b].conn].ref_count /\ jobs'[b].seen > 0
               \/ /\ jobs[b].at = "unref" /\ jobs'[b].at = "last"
                  /\ jobs'[b].seen = 0 /\ clients[jobs[b].conn].ref_count = 0
               \/ jobs[b].at = "count" /\ jobs'[b].at = "last" /\ jobs'[b].seen = jobs[b].seen
               \/ jobs[b].at = "last" /\ jobs'[b].at = "test" /\ jobs[b].query > 0
               \/ b = Loop /\ jobs[b].at = "ref" /\ jobs'[b].at = "unref"
         \/ /\ b \in Threads /\ a = b /\ jobs[b].at = "idle" /\ jobs[Loop].at = "ref" /\ jobs'[Loop] = Idle
            /\ jobs'[b].at = "work" /\ jobs'[b].conn = jobs[Loop].conn
            /\ jobs'[b].query = jobs[Loop].query /\ jobs'[b].tid = NoTid /\ jobs'[b].seen = 0
<1> USE DEF IInv
<1>0. Idle.at = "idle" /\ Idle.conn = NoConn /\ Idle.query = 0 /\ Idle.tid = NoTid
  BY DEF Idle
<1>1. jobs \in [Actors -> Job] /\ jobs' \in [Actors -> Job] /\ Loop \in Actors /\ Loop \notin Threads
  BY ActorTypes, Bounded DEF Typed, Actors
<1>2. jobs[b] \in Job /\ jobs'[b] \in Job
  BY <1>0, <1>1
<1>3. ASSUME jobs[a].at \in {"test", "write"}, Answered(a)
      PROVE  \/ jobs'[b] = jobs[b] \/ jobs'[b] = Idle
             \/ /\ b # Loop /\ a = b
                /\ Dropped(b)
  BY <1>0, <1>3, AnsweredJobs
<1>4. CASE Test(a)
  BY <1>0, <1>1, <1>2, <1>3, <1>4 DEF Test, Goto, Job
<1>5. CASE Write(a)
  <2>1. CASE Answered(a)
    BY <1>0, <1>3, <1>5, <2>1 DEF Write
  <2>2. CASE jobs' = [jobs EXCEPT ![a].at = "test", ![a].out = @ + 1]
    <3>1. CASE b # a
      BY <1>0, <1>1, <2>2, <3>1
    <3>2. CASE b = a
      <4>1. /\ jobs'[b].at = "test" /\ jobs'[b].conn = jobs[b].conn /\ jobs'[b].query = jobs[b].query
            /\ jobs'[b].tid = jobs[b].tid
        BY <1>0, <1>1, <1>2, <2>2, <3>2 DEF Job
      <4> QED
        BY <1>0, <1>2, <1>5, <3>2, <4>1 DEF Write
    <3> QED
      BY <1>0, <3>1, <3>2
  <2> QED
    BY <1>0, <1>5, <2>1, <2>2 DEF Write
<1>6. CASE GiveUp(a)
  BY <1>0, <1>3, <1>6 DEF GiveUp
<1>7. CASE Unref(a)
  <2>1. clients[jobs[a].conn].ref_count \in Nat
    BY <1>0, <1>7 DEF Unref, Typed, Client, Shape, ActorShape
  <2>2. CASE b # a
    BY <1>0, <1>1, <1>7, <2>2 DEF Unref
  <2>3. CASE b = a
    <3>1. /\ jobs'[b].at = IF clients[jobs[a].conn].ref_count < 1 THEN "last" ELSE "count"
          /\ jobs'[b].seen = clients[jobs[a].conn].ref_count
          /\ jobs'[b].conn = jobs[b].conn /\ jobs'[b].query = jobs[b].query
          /\ jobs'[b].tid = jobs[b].tid
      BY <1>0, <1>1, <1>2, <1>7, <2>3 DEF Unref, Job
    <3> QED
      BY <1>0, <1>2, <1>7, <2>1, <2>3, <3>1 DEF Unref
  <2> QED
    BY <1>0, <2>2, <2>3
<1>8. CASE Count(a)
  BY <1>0, <1>1, <1>2, <1>8 DEF Count, Goto, Job
<1>9. CASE DeleteThis(a)
  <2>1. CASE b # a \/ ~(jobs[a].query > 0)
    BY <1>0, <1>1, <1>9, <2>1 DEF DeleteThis
  <2>2. CASE b = a /\ jobs[a].query > 0
    <3>1. jobs'[b] = [jobs[b] EXCEPT !.at = "test", !.size = 1, !.seen = 0]
      BY <1>0, <1>1, <1>9, <2>2 DEF DeleteThis
    <3>2. /\ jobs'[b].at = "test" /\ jobs'[b].conn = jobs[b].conn /\ jobs'[b].query = jobs[b].query
          /\ jobs'[b].tid = jobs[b].tid
      BY <1>0, <1>2, <3>1 DEF Job
    <3> QED
      BY <1>0, <1>2, <1>9, <2>2, <3>2 DEF DeleteThis
  <2> QED
    BY <1>0, <2>1, <2>2
<1>10. CASE a \in Threads /\ Work(a)
  BY <1>0, <1>1, <1>2, <1>10 DEF Work, Goto, Job
<1>11. CASE a \in Threads /\ Ref(a)
  <2> DEFINE job == jobs[Loop]
  <2>0. job \in Job /\ job.at = "ref"
    BY <1>0, <1>1, <1>11 DEF Ref
  <2>1. CASE /\ jobs[a].at = "idle"
             /\ jobs' = [jobs EXCEPT ![Loop] = Idle,
                                     ![a] = [job EXCEPT !.at = "work", !.tid = NoTid, !.seen = 0]]
    <3>1. jobs'[Loop] = Idle
      BY <1>0, <1>1, <1>11, <2>1
    <3>2. CASE b = a
      <4>1. jobs'[b] = [job EXCEPT !.at = "work", !.tid = NoTid, !.seen = 0]
        BY <1>0, <1>1, <2>1, <3>2
      <4>2. /\ jobs'[b].at = "work" /\ jobs'[b].conn = job.conn /\ jobs'[b].query = job.query
            /\ jobs'[b].tid = NoTid /\ jobs'[b].seen = 0
        BY <1>0, <2>0, <4>1 DEF Job
      <4> QED
        BY <1>0, <1>11, <2>0, <2>1, <3>1, <3>2, <4>2
    <3>3. CASE b # a
      BY <1>0, <1>1, <2>1, <3>1, <3>3
    <3> QED
      BY <1>0, <3>2, <3>3
  <2>2. CASE Goto(Loop, "unref")
    BY <1>0, <1>1, <1>2, <2>0, <2>2 DEF Goto, Job
  <2> QED
    BY <1>0, <1>11, <2>1, <2>2 DEF Ref
<1> QED
  BY <1>0, <1>4, <1>5, <1>6, <1>7, <1>8, <1>9, <1>10, <1>11 DEF ActorStep

\* What the steps of an answer make of what is written.
LEMMA ActorOutbox ==
  ASSUME IInv, NEW a \in Actors, ActorStep(a), UNCHANGED phpVars
  PROVE  \/ outbox' = outbox
         \/ \E d \in Conns \ hungup :
              /\ jobs[a].at = "write" /\ NextPiece(jobs[a]) \in Piece
              /\ clients[d].opened /\ clients[d].fd = clients[jobs[a].conn].fd
              /\ Made(jobs[a].conn) /\ jobs[a].conn \in Conns
              /\ outbox' = [outbox EXCEPT ![d] = Append(outbox[d], NextPiece(jobs[a]))]
<1> USE DEF IInv
<1>1. CASE Write(a)
  <2> DEFINE c == jobs[a].conn
             d == files[clients[c].fd]
  <2>1. c \in Conns /\ Made(c) /\ clients[c].fd \in Fds
    BY <1>1 DEF Write, Shape, ActorShape, Typed, Client, Made
  <2>2. outbox' = outbox \/ (d # NoConn /\ d \notin hungup /\
                             outbox' = [outbox EXCEPT ![d] = Append(outbox[d], NextPiece(jobs[a]))])
    BY <1>1 DEF Write
  <2>3. d # NoConn => d \in Conns /\ clients[d].opened /\ clients[d].fd = clients[c].fd
    BY <2>1 DEF Shape, FileShape, Typed
  <2>4. NextPiece(jobs[a]) \in Piece /\ jobs[a].at = "write"
    BY <1>1, Pieces DEF Write
  <2> QED
    BY <2>1, <2>2, <2>3, <2>4
<1>2. CASE ~Write(a)
  BY <1>2 DEF ActorStep, Test, GiveUp, Unref, Count, DeleteThis, Work, Ref
<1> QED
  BY <1>1, <1>2

\* The shape, in the steps of an answer and of a reference.
LEMMA ActorsShape ==
  ASSUME IInv, NEW a \in Actors, ActorStep(a), UNCHANGED phpVars
  PROVE  Shape'
<1> USE DEF IInv
<1>1. /\ UNCHANGED <<bounds, backlog, hungup, inbox, files, php, sent, result>>
      /\ \A c \in Conns : /\ clients'[c].fd = clients[c].fd
                          /\ clients'[c].opened = clients[c].opened
                          /\ (Made(c)' <=> Made(c))
                          /\ ~Made(c) => clients'[c] = clients[c]
  BY ActorFrame
<1>2. PhpShape'
  BY <1>1 DEF Shape, PhpShape
<1>3. FileShape'
  BY <1>1 DEF Shape, FileShape, Typed
<1>4. \A c \in Conns : ~Made(c) => outbox'[c] = outbox[c]
  BY ActorOutbox, Accepts DEF Typed
<1>5. \A c \in Conns : ConnShape(c)'
  BY <1>1, <1>4 DEF Shape, ConnShape
<1>6. \A b \in Actors : ActorShape(b)'
  <2> TAKE b \in Actors
  <2>0. /\ ActorShape(b) /\ ActorShape(Loop) /\ Loop \in Actors /\ Loop \notin Threads
        /\ sent \in Nat /\ TidLimit \in Nat /\ jobs[b] \in Job
    BY Bounded DEF Shape, Actors, Typed
  <2>1. CASE jobs'[b] = jobs[b]
    BY <1>1, <2>0, <2>1 DEF ActorShape
  <2>2. CASE jobs'[b] = Idle
    BY <1>1, <2>0, <2>2 DEF ActorShape, Idle, NoTid
  <2>3. CASE /\ b # Loop /\ jobs[b].at \in {"test", "write"}
             /\ Dropped(b)
    BY <1>1, <2>0, <2>3 DEF ActorShape, Dropped
  <2>4. CASE /\ jobs[b].at # "idle"
             /\ jobs'[b].conn = jobs[b].conn /\ jobs'[b].query = jobs[b].query
             /\ jobs'[b].tid = jobs[b].tid
             /\ \/ jobs[b].at = "work" /\ jobs'[b].at = "test"
                \/ jobs[b].at = "test" /\ jobs'[b].at = "write"
                \/ jobs[b].at = "write" /\ jobs'[b].at = "test"
                \/ jobs[b].at = "unref" /\ jobs'[b].at = "count" /\ jobs'[b].seen > 0
                \/ jobs[b].at = "unref" /\ jobs'[b].at = "last"
                \/ jobs[b].at = "count" /\ jobs'[b].at = "last"
                \/ jobs[b].at = "last" /\ jobs'[b].at = "test" /\ jobs[b].query > 0
                \/ b = Loop /\ jobs[b].at = "ref" /\ jobs'[b].at = "unref"
    <3>1. jobs[b].query \in Nat
      BY <2>0 DEF Job
    <3>2. CASE b = Loop
      BY <1>1, <2>0, <2>4, <3>1, <3>2 DEF ActorShape
    <3>3. CASE b # Loop
      BY <1>1, <2>0, <2>4, <3>1, <3>3 DEF ActorShape, Actors
    <3> QED
      BY <3>2, <3>3
  <2>5. CASE /\ b \in Threads /\ jobs[Loop].at = "ref"
             /\ jobs'[b].at = "work" /\ jobs'[b].conn = jobs[Loop].conn
             /\ jobs'[b].query = jobs[Loop].query /\ jobs'[b].tid = NoTid
    BY <1>1, <2>0, <2>5 DEF ActorShape
  <2> QED
    BY <2>1, <2>2, <2>3, <2>4, <2>5, ActorJobs
<1> QED
  BY <1>2, <1>3, <1>5, <1>6 DEF Shape

\* What the steps of the PHP process leave alone.
LEMMA PhpFrame ==
  ASSUME IInv, PhpStep
  PROVE  /\ UNCHANGED serverVars /\ sent' >= sent /\ sent' \in Nat
         /\ hungup' = hungup \/ php'.socket = NoConn
         /\ backlog' = backlog \/ \E s \in Conns \ backlog : ~Made(s) /\ backlog' = backlog \cup {s}
<1> USE DEF IInv
<1>1. UNCHANGED serverVars
  BY DEF PhpStep, TopyConnect, TopyReconnect, ConnectionFree, TopyQuery, ConnectionClear, QuerySend,
         QuerySendSafe, TopyQueryRead, ReadResult, ReadEnd, ReadError
<1>2. sent' >= sent /\ sent' \in Nat
  <2>1. sent' \in {sent, sent + 1}
    BY DEF PhpStep, TopyConnect, TopyReconnect, ConnectionFree, TopyQuery, ConnectionClear, QuerySend,
           QuerySendSafe, TopyQueryRead, ReadResult, ReadEnd, ReadError
  <2> QED
    BY <2>1, Bounded
<1>3. ASSUME ~ConnectionFree, \A s \in Conns \cup {NoConn} : ~SocketOpen(s)
      PROVE  UNCHANGED <<hungup, backlog>>
  BY <1>3 DEF PhpStep, TopyConnect, TopyReconnect, ConnectionFree, TopyQuery, ConnectionClear,
              QuerySend, QuerySendSafe, TopyQueryRead, ReadResult, ReadEnd, ReadError, Reconnect
<1>4. CASE ConnectionFree
  BY <1>4, Bounded DEF ConnectionFree, Fresh
<1>5. ASSUME ~ConnectionFree PROVE hungup' = hungup
  BY <1>5 DEF PhpStep, TopyConnect, TopyReconnect, TopyQuery, ConnectionClear,
              QuerySend, QuerySendSafe, TopyQueryRead, ReadResult, ReadEnd, ReadError, Reconnect,
              ConnectionClose
<1>6. ASSUME NEW s \in Conns \cup {NoConn}, SocketOpen(s)
      PROVE  backlog' = backlog \/ \E r \in Conns \ backlog : ~Made(r) /\ backlog' = backlog \cup {r}
  BY <1>6, Sockets
<1> QED
  BY <1>1, <1>2, <1>3, <1>4, <1>5, <1>6

\* What PHP writes: a command, on a connection that the server has not closed.
LEMMA PhpInbox ==
  ASSUME IInv, PhpStep
  PROVE  \/ inbox' = inbox
         \/ \E s \in Conns : /\ php'.socket = s /\ php'.tid = NextTid /\ sent' = sent + 1
                             /\ php'.query = sent' /\ php'.got = php.got
                             /\ (s \in backlog' \/ Made(s))
                             /\ s = php.socket \/ (~Made(s) /\ s \notin backlog)
                             /\ Command(s) \in Query
                             /\ inbox' = [inbox EXCEPT ![s] = Append(inbox[s], Command(s))]
<1> USE DEF IInv
<1>1. CASE QuerySend
  <2>1. php.socket \in Conns
    BY <1>1 DEF QuerySend, Shape, PhpShape, Typed, Resource
  <2>2. CASE inbox' = [inbox EXCEPT ![php.socket] = Append(@, Command(php.socket))] /\ php' = Sent(php.socket)
             /\ Connected(php.socket)
    <3>1. php.socket \in backlog' \/ Made(php.socket)
      BY <1>1, <2>1, <2>2, Accepts DEF QuerySend
    <3> QED
      BY <1>1, <2>1, <2>2, <3>1, SentPhp DEF QuerySend
  <2> QED
    BY <1>1, <2>2 DEF QuerySend
<1>2. CASE QuerySendSafe
  <2>1. PICK s \in Conns \cup {NoConn} :
          /\ Reconnect(s)
          /\ IF s = NoConn
             THEN UNCHANGED <<inbox, sent>>
             ELSE /\ inbox' = [inbox EXCEPT ![s] = Append(@, Command(s))]
                  /\ php' = Sent(s)
                  /\ sent' = sent + 1
    BY <1>2 DEF QuerySendSafe
  <2>2. CASE s # NoConn
    <3>1. s \in Conns /\ s \notin backlog /\ ~Made(s) /\ backlog' = backlog \cup {s}
      BY <2>1, <2>2, Reconnects
    <3> QED
      BY <2>1, <2>2, <3>1, SentPhp
  <2> QED
    BY <2>1, <2>2
<1>3. CASE ~QuerySend /\ ~QuerySendSafe
  BY <1>3 DEF PhpStep, TopyConnect, TopyReconnect, ConnectionFree, TopyQuery, ConnectionClear,
              TopyQueryRead, ReadResult, ReadEnd, ReadError
<1> QED
  BY <1>1, <1>2, <1>3

\* What PHP reads: the first pieces that are on its connection.
LEMMA PhpOutbox ==
  ASSUME IInv, PhpStep
  PROVE  \/ outbox' = outbox
         \/ \E s \in Conns : s = php.socket /\ outbox' = [outbox EXCEPT ![s] = <<>>]
         \/ \E s \in Conns : \E n \in 1 .. Len(outbox[s]) :
              s = php.socket /\ outbox' = [outbox EXCEPT ![s] = SubSeq(outbox[s], n + 1, Len(outbox[s]))]
<1> USE DEF IInv
<1>1. CASE ConnectionClear
  BY <1>1 DEF ConnectionClear, Shape, PhpShape, Typed, Resource
<1>2. CASE ReadResult
  <2>1. php.socket \in Conns
    BY <1>2 DEF ReadResult, Shape, PhpShape, Typed, Resource
  <2> QED
    BY <1>2, <2>1 DEF ReadResult
<1>3. CASE ~ConnectionClear /\ ~ReadResult
  BY <1>3 DEF PhpStep, TopyConnect, TopyReconnect, ConnectionFree, TopyQuery, QuerySend,
              QuerySendSafe, TopyQueryRead, ReadEnd, ReadError
<1> QED
  BY <1>1, <1>2, <1>3

\* ... piece by piece.
LEMMA PhpReads ==
  ASSUME IInv, PhpStep, NEW c \in Conns
  PROVE  \E n \in Nat : \A i \in DOMAIN outbox'[c] :
           i \in Nat /\ n + i \in DOMAIN outbox[c] /\ outbox'[c][i] = outbox[c][n + i]
<1>1. /\ outbox \in [Conns -> Seq(Piece)] /\ outbox[c] \in Seq(Piece)
      /\ DOMAIN outbox[c] = 1 .. Len(outbox[c]) /\ Len(outbox[c]) \in Nat
  BY LenProperties DEF IInv, Typed
<1>2. CASE outbox'[c] = outbox[c]
  <2>1. \A i \in DOMAIN outbox'[c] : i \in Nat /\ 0 + i \in DOMAIN outbox[c] /\ outbox'[c][i] = outbox[c][0 + i]
    BY <1>1, <1>2
  <2> QED
    BY <2>1
<1>3. CASE outbox'[c] = <<>>
  BY <1>3
<1>4. ASSUME NEW n \in 1 .. Len(outbox[c]), outbox'[c] = SubSeq(outbox[c], n + 1, Len(outbox[c]))
      PROVE  \E k \in Nat : \A i \in DOMAIN outbox'[c] :
               i \in Nat /\ k + i \in DOMAIN outbox[c] /\ outbox'[c][i] = outbox[c][k + i]
  <2>1. n \in Nat
    BY <1>1
  <2>2. \A i \in DOMAIN outbox'[c] :
          i \in Nat /\ n + i \in DOMAIN outbox[c] /\ outbox'[c][i] = outbox[c][n + i]
    BY <1>1, <1>4, Rest
  <2> QED
    BY <2>1, <2>2
<1>5. \/ outbox'[c] = outbox[c] \/ outbox'[c] = <<>>
      \/ \E n \in 1 .. Len(outbox[c]) : outbox'[c] = SubSeq(outbox[c], n + 1, Len(outbox[c]))
  BY <1>1, PhpOutbox
<1> QED
  BY <1>2, <1>3, <1>4, <1>5

\* The shape, in the steps of the PHP process.
LEMMA PhpsShape ==
  ASSUME IInv, PhpStep
  PROVE  Shape'
<1> USE DEF IInv
<1>1. /\ UNCHANGED <<bounds, files, clients, jobs>> /\ sent' >= sent /\ sent' \in Nat /\ sent \in Nat
      /\ backlog' = backlog \/ \E s \in Conns \ backlog : ~Made(s) /\ backlog' = backlog \cup {s}
  BY PhpFrame, Bounded DEF serverVars
<1>2. \A c \in Conns : Made(c)' <=> Made(c)
  BY <1>1 DEF Made
<1>3. FileShape' /\ \A a \in Actors : ActorShape(a)'
  <2>1. FileShape'
    BY <1>1 DEF Shape, FileShape
  <2>2. \A a \in Actors : ActorShape(a)'
    <3> TAKE a \in Actors
    <3>1. ActorShape(a) /\ jobs[a].query \in Nat
      BY DEF Shape, Typed, Job
    <3> QED
      BY <1>1, <1>2, <3>1 DEF ActorShape
  <2> QED
    BY <2>1, <2>2
<1>4. \A c \in Conns : ConnShape(c)'
  <2> TAKE c \in Conns
  <2>1. ConnShape(c)
    BY DEF Shape
  <2>2. c \in backlog' => ~Made(c)
    BY <1>1, <2>1 DEF ConnShape
  <2>3. ~Made(c) => outbox'[c] = <<>>
    <3>1. ~Made(c) => outbox[c] = <<>> /\ Len(outbox[c]) = 0
      BY <2>1, EmptySeq DEF ConnShape
    <3> QED
      BY <3>1, PhpOutbox DEF Typed
  <2>4. /\ ~Made(c) /\ c \notin backlog' => inbox'[c] = <<>>
        /\ \A i \in DOMAIN inbox'[c] : inbox'[c][i].conn = c /\ inbox'[c][i].id \in 1 .. sent'
    <3>1. CASE inbox'[c] = inbox[c]
      BY <1>1, <2>1, <3>1 DEF ConnShape
    <3>2. CASE /\ (c \in backlog' \/ Made(c)) /\ sent' = sent + 1
               /\ Command(c) \in Query /\ inbox'[c] = Append(inbox[c], Command(c))
      <4>1. inbox[c] \in Seq(Query)
        BY DEF Typed
      <4>2. /\ DOMAIN inbox'[c] = 1 .. Len(inbox[c]) + 1 /\ Len(inbox[c]) \in Nat
            /\ DOMAIN inbox[c] = 1 .. Len(inbox[c])
            /\ \A i \in DOMAIN inbox[c] : inbox'[c][i] = inbox[c][i]
            /\ inbox'[c][Len(inbox[c]) + 1] = Command(c)
        BY <3>2, <4>1, Appended
      <4>3. Command(c).conn = c /\ Command(c).id = sent + 1
        BY SentPhp
      <4>4. ASSUME NEW i \in DOMAIN inbox'[c]
            PROVE  inbox'[c][i].conn = c /\ inbox'[c][i].id \in 1 .. sent'
        <5>1. CASE i \in DOMAIN inbox[c]
          BY <1>1, <2>1, <4>2, <5>1 DEF ConnShape
        <5>2. CASE i = Len(inbox[c]) + 1
          BY <1>1, <3>2, <4>2, <4>3, <5>2
        <5> QED
          BY <4>2, <5>1, <5>2
      <4> QED
        BY <3>2, <4>4
    <3>3. inbox'[c] = inbox[c] \/ ((c \in backlog' \/ Made(c)) /\ sent' = sent + 1
               /\ Command(c) \in Query /\ inbox'[c] = Append(inbox[c], Command(c)))
      BY PhpInbox DEF Typed
    <3> QED
      BY <3>1, <3>2, <3>3
  <2> QED
    BY <1>1, <1>2, <2>1, <2>2, <2>3, <2>4 DEF ConnShape
<1>5. PhpShape'
  <2>0. /\ PhpShape /\ php \in Resource /\ NoConn \notin Conns /\ bounds.queries \in Nat
        /\ UNCHANGED bounds /\ <<>> \in Seq(Piece)
    BY <1>1, Bounded, EmptySeq DEF Shape, Typed
  <2>1. CASE TopyConnect \/ ConnectionFree
    BY <2>0, <2>1 DEF TopyConnect, ConnectionFree, Fresh, PhpShape
  <2>2. CASE TopyReconnect \/ ReadEnd \/ ReadError
    BY <2>0, <2>2 DEF TopyReconnect, ReadEnd, ReadError, Resource, PhpShape
  <2>3. ASSUME NEW kind \in bounds.kinds, NEW size \in bounds.sizes, NEW wait \in bounds.waits,
               TopyQuery(kind, size, wait)
        PROVE  PhpShape'
    <3>1. /\ php'.at \in {"clear", "send"} /\ php'.socket = php.socket /\ php'.query = php.query
          /\ php.socket # NoConn /\ sent < bounds.queries /\ sent' = sent
      BY <2>0, <2>3 DEF TopyQuery, Resource
    <3> QED
      BY <2>0, <3>1 DEF PhpShape
  <2>4. CASE ConnectionClear
    BY <2>0, <2>4 DEF ConnectionClear, Resource, PhpShape
  <2>5. CASE QuerySend
    <3> DEFINE s == php.socket
    <3>1. s \in Conns /\ sent < bounds.queries /\ sent' = sent + 1
      BY <2>0, <2>5 DEF QuerySend, Resource, PhpShape
    <3>2. php' = Sent(s) \/ php' = [Sent(s) EXCEPT !.at = "resend", !.kind = php.kind, !.size = php.size]
      BY <2>5 DEF QuerySend
    <3>3. /\ Sent(s) \in Resource /\ Sent(s).at \in {"read", "idle"} /\ Sent(s).socket = s
          /\ Sent(s).query = sent + 1
      BY <3>1, SentPhp
    <3> HIDE DEF s
    <3>4. php'.at \in {"read", "idle", "resend"} /\ php'.socket = s /\ php'.query = sent + 1
      BY <3>2, <3>3 DEF Resource
    <3> QED
      BY <1>1, <2>0, <3>1, <3>4 DEF PhpShape
  <2>6. CASE QuerySendSafe
    <3>1. PICK s \in Conns \cup {NoConn} :
            IF s = NoConn
            THEN php' = [php EXCEPT !.at = "idle", !.socket = NoConn] /\ sent' = sent
            ELSE php' = Sent(s) /\ sent' = sent + 1
      BY <2>6 DEF QuerySendSafe
    <3>2. CASE s = NoConn
      BY <2>0, <3>1, <3>2 DEF Resource, PhpShape
    <3>3. CASE s # NoConn
      <4>1. php'.at \in {"read", "idle"} /\ php'.socket = s /\ php'.query = sent + 1 /\ sent' = sent + 1
        BY <3>1, <3>3, SentPhp
      <4> QED
        BY <1>1, <2>0, <3>3, <4>1 DEF PhpShape
    <3> QED
      BY <3>2, <3>3
  <2>7. CASE TopyQueryRead
    BY <2>0, <2>7 DEF TopyQueryRead, Resource, PhpShape
  <2>8. CASE ReadResult
    <3>1. sent' = sent /\ php.at = "read"
      BY <2>8 DEF ReadResult
    <3>2. \/ \E got : php' = [php EXCEPT !.got = got]
          \/ php' = [php EXCEPT !.at = "idle", !.got = <<>>]
          \/ \E r : php' = [php EXCEPT !.at = "idle", !.got = <<>>, !.socket = r]
      BY <2>8 DEF ReadResult
    <3>3. /\ php'.query = php.query
          /\ php'.at = "idle" \/ (php'.at = php.at /\ php'.socket = php.socket)
      BY <2>0, <3>2 DEF Resource
    <3> QED
      BY <2>0, <3>1, <3>3 DEF PhpShape
  <2> QED
    BY <2>1, <2>2, <2>3, <2>4, <2>5, <2>6, <2>7, <2>8 DEF PhpStep
<1> QED
  BY <1>3, <1>4, <1>5 DEF Shape

-----------------------------------------------------------------------------
\* The types and the shape are kept by every step.
LEMMA IInvNext ==
  ASSUME IInv, [Next]_vars
  PROVE  IInv'
<1>1. CASE PhpStep
  BY <1>1, PhpTypes, PhpsShape DEF IInv
<1>2. CASE LoopStep /\ UNCHANGED phpVars
  BY <1>2, LoopTypes, LoopShape DEF IInv
<1>3. ASSUME NEW a \in Actors, ActorStep(a), UNCHANGED phpVars PROVE IInv'
  BY <1>3, ActorTypes, ActorsShape DEF IInv
<1>4. CASE UNCHANGED vars
  BY <1>4 DEF vars, serverVars, phpVars, IInv, Typed, Shape, ConnShape, FileShape, ActorShape, PhpShape,
              Made
<1> QED
  BY <1>1, <1>2, <1>3, <1>4 DEF Next, ServerStep

\* Every state has its types and its shape, in a run of the specification.
THEOREM SessionsInvariance == Spec => []IInv
<1> QED
  BY IInvInit, IInvNext, PTL DEF Spec

\* TypeOK holds in every state: descriptors, connections, jobs and the resource
\* have their types, an open connection has the descriptor that it was accepted
\* on, and the event loop never does the work of a thread (events.cc:39-162).
THEOREM TypeCorrectness == Spec => []TypeOK
<1>1. IInv => TypeOK
  BY Opened
<1> QED
  BY <1>1, SessionsInvariance, PTL

-----------------------------------------------------------------------------
\* The reference counts.

\* The holders of a reference are finitely many.
LEMMA HoldersFinite ==
  ASSUME IInv, NEW c
  PROVE  IsFiniteSet(Holders(c)) /\ Cardinality(Holders(c)) \in Nat
<1>1. IsFiniteSet(Actors)
  BY Bounded, FS_AddElement DEF Actors, IInv
<1>2. Holders(c) \subseteq Actors
  BY DEF Holders, Using
<1> QED
  BY <1>1, <1>2, FS_Subset, FS_CardinalityType

\* No job is on a connection that was not accepted.
LEMMA MadeBefore ==
  ASSUME IInv, NEW c \in Conns, ~Made(c)
  PROVE  Using(c) = {} /\ Holders(c) = {} /\ Counting(c) = {}
<1>1. \A a \in Actors : jobs[a].conn # c
  <2> TAKE a \in Actors
  <2>1. CASE jobs[a].at = "idle"
    BY <2>1, Bounded DEF IInv, Shape, ActorShape, Idle
  <2>2. CASE jobs[a].at # "idle"
    BY <2>2 DEF IInv, Shape, ActorShape
  <2> QED
    BY <2>1, <2>2
<1> QED
  BY <1>1 DEF Using, Holders, Counting

\* What a step does not touch stays counted.
LEMMA Untouched ==
  ASSUME NEW c \in Conns, Counted(c), clients'[c] = clients[c], c \notin misused',
         \A a \in Actors : jobs'[a] = jobs[a] \/ (jobs[a].conn # c /\ jobs'[a].conn # c)
  PROVE  Counted(c)'
<1>1. Using(c)' = Using(c)
  BY DEF Using
<1>2. Counting(c)' = Counting(c) /\ \A a \in Counting(c) : jobs'[a] = jobs[a]
  BY DEF Counting
<1>3. Holders(c)' = Holders(c)
  BY <1>1 DEF Holders, Using
<1> QED
  BY <1>1, <1>2, <1>3 DEF Counted, Made

\* A Client that is used was not freed.
LEMMA NotFreed ==
  ASSUME IInv, NEW c \in Conns, Counted(c), Made(c), clients[c].opened \/ Using(c) # {}, Use(c)
  PROVE  c \notin misused' /\ ~clients[c].freed /\ misused' = misused
BY DEF Counted, Use

\* The reference of a connection, as the server accepts it.
LEMMA CountedConnect ==
  ASSUME IInv, NEW c \in Conns, Connect(c), Counted(c)
  PROVE  Counted(c)'
<1>1. c \in backlog /\ ~Made(c)
  BY DEF Connect, IInv, Shape, ConnShape
<1>2. PICK f \in Fds : clients' = [clients EXCEPT ![c] = NewClient(f)]
  BY <1>1, FreeDescriptor DEF Connect
<1>3. clients'[c].opened = TRUE /\ clients'[c].ref_count = 1 /\ clients'[c].freed = FALSE
  BY <1>2 DEF NewClient, IInv, Typed
<1>4. Using(c) = {} /\ Holders(c) = {} /\ Counting(c) = {}
  BY <1>1, MadeBefore
<1>5. Using(c)' = Using(c) /\ Holders(c)' = Holders(c) /\ Counting(c)' = Counting(c) /\ misused' = misused
  BY DEF Connect, Using, Holders, Counting
<1> QED
  BY <1>3, <1>4, <1>5, FS_EmptySet DEF Counted

\* ... as the server closes it.
LEMMA CountedClosed ==
  ASSUME IInv, NEW c \in Conns, Receive(c) \/ Error(c), Closed(c), Counted(c)
  PROVE  Counted(c)'
<1> USE DEF IInv
<1>1. clients[c].opened /\ Made(c) /\ jobs[Loop].at = "idle" /\ Use(c)
  BY Accepts DEF Receive, Error
<1>2. Loop \in Actors /\ jobs[Loop].conn # c /\ clients[c] \in Client
  BY <1>1, Bounded DEF Actors, Shape, ActorShape, Idle, Typed
<1>3. /\ jobs'[Loop].at = "unref" /\ jobs'[Loop].conn = c
      /\ \A a \in Actors \ {Loop} : jobs'[a] = jobs[a]
      /\ clients'[c].opened = FALSE /\ clients'[c].ref_count = clients[c].ref_count
      /\ clients'[c].freed = clients[c].freed /\ clients'[c].fd = clients[c].fd
  BY <1>2, Dropping DEF Closed, Typed, Client
<1>4. ~clients[c].freed /\ c \notin misused'
  BY <1>1, NotFreed
<1>5. Using(c)' = Using(c) \cup {Loop} /\ Counting(c)' = Counting(c)
  BY <1>2, <1>3 DEF Using, Counting
<1>6. Holders(c)' = Holders(c) \cup {Loop} /\ Loop \notin Holders(c)
  BY <1>2, <1>3 DEF Holders, Using
<1>7. Cardinality(Holders(c)') = Cardinality(Holders(c)) + 1
  BY <1>6, HoldersFinite, FS_AddElement
<1>8. clients'[c].ref_count = Cardinality(Holders(c)')
  BY <1>1, <1>3, <1>7, HoldersFinite DEF Counted
<1>9. \A a \in Counting(c) : jobs'[a] = jobs[a]
  BY <1>2, <1>3 DEF Counting
<1>10. Cardinality(Holders(c)') \in Nat
  BY <1>7, HoldersFinite
<1>11. clients'[c].ref_count = (IF clients'[c].opened THEN 1 ELSE 0) + Cardinality(Holders(c)')
  BY <1>3, <1>8, <1>10
<1>12. clients'[c].freed <=> ~clients'[c].opened /\ Using(c)' = {}
  BY <1>3, <1>4, <1>5
<1>13. \A a \in Counting(c)' : IF jobs'[a].at = "last" THEN jobs'[a].seen > 0
                               ELSE jobs'[a].seen = clients'[c].ref_count
  BY <1>3, <1>5, <1>9 DEF Counted
<1> QED
  BY <1>4, <1>5, <1>11, <1>12, <1>13 DEF Counted

\* ... as it reads a command of it.
LEMMA CountedReceive ==
  ASSUME IInv, NEW c \in Conns, Receive(c), ~Closed(c), Counted(c), c \notin tangled'
  PROVE  Counted(c)'
<1> USE DEF IInv
<1> DEFINE q == Parsed(inbox[c])
<1>1. clients[c].opened /\ Made(c) /\ jobs[Loop].at = "idle" /\ Use(c) /\ inbox[c] # <<>>
  BY Accepts DEF Receive
<1>2. Loop \in Actors /\ jobs[Loop].conn # c /\ Loop \notin Threads
  BY <1>1, Bounded DEF Actors, Shape, ActorShape, Idle
<1>3. clients' = clients /\ ~clients[c].freed /\ c \notin misused'
  BY <1>1, NotFreed DEF Receive
<1>4. \/ jobs' = jobs
      \/ /\ jobs'[Loop].conn = c /\ \A a \in Actors \ {Loop} : jobs'[a] = jobs[a]
         /\ \/ jobs'[Loop].at = "test"
            \/ jobs'[Loop].at = "ref" /\ jobs'[Loop].seen = clients[c].ref_count /\ Overlap(Loop, c)
  <2>1. \/ jobs' = jobs
        \/ jobs' = [jobs EXCEPT ![Loop] = Answering(q)]
        \/ jobs' = [jobs EXCEPT ![Loop] =
                       [Answering(q) EXCEPT !.at = "ref", !.seen = clients[c].ref_count,
                                            !.size = IF q.kind = "late" THEN q.size ELSE 0]]
             /\ Overlap(Loop, c)
    BY DEF Receive
  <2>2. /\ Answering(q).at = "test" /\ Answering(q).conn = c
        /\ [Answering(q) EXCEPT !.at = "ref", !.seen = clients[c].ref_count,
                                !.size = IF q.kind = "late" THEN q.size ELSE 0].at = "ref"
        /\ [Answering(q) EXCEPT !.at = "ref", !.seen = clients[c].ref_count,
                                !.size = IF q.kind = "late" THEN q.size ELSE 0].conn = c
        /\ [Answering(q) EXCEPT !.at = "ref", !.seen = clients[c].ref_count,
                                !.size = IF q.kind = "late" THEN q.size ELSE 0].seen = clients[c].ref_count
    <3>1. /\ Answering(q) = [at |-> "test", conn |-> c, query |-> q.id, tid |-> q.tid, size |-> q.size,
                             out |-> 0, seen |-> 0]
          /\ [Answering(q) EXCEPT !.at = "ref", !.seen = clients[c].ref_count,
                                  !.size = IF q.kind = "late" THEN q.size ELSE 0] =
              [at |-> "ref", conn |-> c, query |-> q.id, tid |-> q.tid,
               size |-> IF q.kind = "late" THEN q.size ELSE 0, out |-> 0, seen |-> clients[c].ref_count]
      BY <1>1, ReceivedJobs
    <3> HIDE DEF q
    <3> QED
      BY <3>1
  <2> HIDE DEF q
  <2> QED
    BY <1>2, <2>1, <2>2 DEF Typed
<1>5. CASE jobs' = jobs
  BY <1>3, <1>5, Untouched
<1>6. CASE /\ jobs'[Loop].conn = c /\ \A a \in Actors \ {Loop} : jobs'[a] = jobs[a]
           /\ \/ jobs'[Loop].at = "test"
              \/ jobs'[Loop].at = "ref" /\ jobs'[Loop].seen = clients[c].ref_count /\ Overlap(Loop, c)
  <2>1. Holders(c)' = Holders(c)
    BY <1>2, <1>6 DEF Holders, Using
  <2>2. \/ Counting(c)' = Counting(c)
        \/ Counting(c)' = {Loop} /\ jobs'[Loop].at = "ref" /\ jobs'[Loop].seen = clients[c].ref_count
    <3>1. CASE jobs'[Loop].at = "test"
      BY <1>2, <1>6, <3>1 DEF Counting
    <3>2. CASE jobs'[Loop].at = "ref" /\ jobs'[Loop].seen = clients[c].ref_count /\ Overlap(Loop, c)
      <4>1. Counting(c) \ {Loop} = {}
        BY <3>2 DEF Overlap
      <4> QED
        BY <1>2, <1>6, <3>2, <4>1 DEF Counting
    <3> QED
      BY <1>6, <3>1, <3>2
  <2>3. \A a \in Counting(c) : jobs'[a] = jobs[a]
    BY <1>2, <1>6 DEF Counting
  <2>4. /\ \A a, b \in Counting(c)' : a = b
        /\ \A a \in Counting(c)' : IF jobs'[a].at = "last" THEN jobs'[a].seen > 0
                                   ELSE jobs'[a].seen = clients'[c].ref_count
    BY <1>3, <2>2, <2>3 DEF Counted
  <2>5. clients'[c].freed <=> ~clients'[c].opened /\ Using(c)' = {}
    BY <1>1, <1>3
  <2> QED
    BY <1>3, <2>1, <2>4, <2>5 DEF Counted, Made
<1> QED
  BY <1>4, <1>5, <1>6

\* ... as an actor goes on with an answer, which changes no reference.
LEMMA CountedAnswer ==
  ASSUME IInv, NEW a \in Actors, NEW c \in Conns, jobs[a].conn = c, Counted(c),
         Test(a) \/ Write(a) \/ GiveUp(a) \/ (a \in Threads /\ Work(a))
  PROVE  Counted(c)'
<1> USE DEF IInv
<1>1. /\ Made(c) /\ a \in Using(c) /\ Loop \notin Threads /\ a \notin Counting(c)
      /\ jobs[a].at \in {"work", "test", "write"} /\ jobs[a] \in Job /\ jobs \in [Actors -> Job]
  BY Bounded DEF Test, Write, GiveUp, Work, Shape, ActorShape, Using, Counting, Typed
<1>2. clients' = clients /\ ~clients[c].freed /\ c \notin misused'
  <2>1. Use(c) \/ misused' = misused
    BY DEF Test, Write, GiveUp, Work
  <2>2. ~clients[c].freed /\ (Use(c) => misused' = misused) /\ c \notin misused
    BY <1>1 DEF Counted, Use
  <2> QED
    BY <2>1, <2>2 DEF Test, Write, GiveUp, Work
<1>3. \A b \in Actors \ {a} : jobs'[b] = jobs[b]
  BY AnsweredJobs DEF Test, Write, GiveUp, Work, Goto, Typed
<1>4. \/ a = Loop /\ jobs'[a] = Idle /\ clients[c].opened
      \/ jobs'[a].conn = c /\ jobs'[a].at \in {"test", "write"}
      \/ a # Loop /\ jobs'[a].conn = c /\ jobs'[a].at = "unref"
  <2>1. a = Loop => clients[c].opened
    <3>1. a = Loop => ActorShape(a) /\ jobs[a].at \in {"test", "write"}
      BY <1>1 DEF Shape, Test, Write, GiveUp, Work
    <3> QED
      BY <3>1 DEF ActorShape
  <2>2. CASE Answered(a)
    <3>1. /\ a = Loop => jobs'[a] = Idle
          /\ a # Loop => Dropped(a)
      <4>1. jobs[a].at # "idle"
        BY <1>1
      <4> QED
        BY <2>2, <4>1, AnsweredJobs
    <3> QED
      BY <2>1, <3>1 DEF Dropped
  <2>3. CASE Goto(a, "write") \/ Goto(a, "test")
    BY <1>1, <2>3 DEF Goto, Job
  <2>4. CASE jobs' = [jobs EXCEPT ![a].at = "test", ![a].out = @ + 1]
    BY <1>1, <2>4 DEF Job
  <2> QED
    BY <2>2, <2>3, <2>4 DEF Test, Write, GiveUp, Work
<1>5. Counting(c)' = Counting(c)
  <2>1. a \notin Counting(c)'
    BY <1>4 DEF Counting, Idle
  <2> QED
    BY <1>1, <1>3, <2>1 DEF Counting
<1>6. Holders(c)' = Holders(c)
  <2>1. a \in Holders(c) <=> a \in Threads
    BY <1>1 DEF Holders, Using, Test, Write, GiveUp, Work, Actors
  <2>2. a \in Holders(c)' <=> a \in Threads
    BY <1>1, <1>4, Bounded DEF Holders, Using, Idle, Actors
  <2>3. \A b \in Actors \ {a} : b \in Holders(c)' <=> b \in Holders(c)
    BY <1>3 DEF Holders, Using
  <2> QED
    BY <2>1, <2>2, <2>3 DEF Holders, Using
<1>7. clients[c].opened \/ Using(c)' # {}
  BY <1>1, <1>4 DEF Using
<1>8. \A b \in Counting(c) : jobs'[b] = jobs[b]
  BY <1>1, <1>3 DEF Counting
<1> QED
  BY <1>2, <1>5, <1>6, <1>7, <1>8 DEF Counted, Made

\* ... as an actor begins to drop a reference, which it still holds.
LEMMA CountedUnref ==
  ASSUME IInv, NEW a \in Actors, NEW c \in Conns, jobs[a].conn = c, Counted(c), c \notin tangled',
         Unref(a)
  PROVE  Counted(c)'
<1> USE DEF IInv
<1>1. /\ Made(c) /\ a \in Holders(c) /\ a \in Using(c) /\ jobs[a] \in Job /\ jobs \in [Actors -> Job]
      /\ clients[c] \in Client
  BY DEF Unref, Shape, ActorShape, Using, Holders, Typed
<1>2. clients' = clients /\ ~clients[c].freed /\ c \notin misused'
  BY <1>1, NotFreed DEF Unref
<1>3. clients[c].ref_count >= 1
  <2>1. Holders(c) # {} /\ IsFiniteSet(Holders(c)) /\ Cardinality(Holders(c)) \in Nat
    BY <1>1, HoldersFinite
  <2>2. Cardinality(Holders(c)) # 0
    BY <2>1, FS_EmptySet
  <2> QED
    BY <1>1, <2>1, <2>2 DEF Counted
<1>4. /\ jobs'[a].conn = c /\ jobs'[a].at = "count" /\ jobs'[a].seen = clients[c].ref_count
      /\ \A b \in Actors \ {a} : jobs'[b] = jobs[b]
  BY <1>1, <1>3 DEF Unref, Job, Client
<1>5. Counting(c) \ {a} = {}
  BY DEF Unref, Overlap
<1>6. Counting(c)' = {a}
  BY <1>4, <1>5 DEF Counting
<1>7. Using(c)' = Using(c)
  BY <1>1, <1>4 DEF Using
<1>8. Holders(c)' = Holders(c)
  BY <1>1, <1>4 DEF Holders, Using
<1> QED
  BY <1>2, <1>4, <1>6, <1>7, <1>8 DEF Counted, Made

\* ... as the actor writes the new value.
LEMMA CountedCount ==
  ASSUME IInv, NEW a \in Actors, NEW c \in Conns, jobs[a].conn = c, Counted(c), Count(a)
  PROVE  Counted(c)'
<1> USE DEF IInv
<1>1. /\ Made(c) /\ a \in Holders(c) /\ a \in Using(c) /\ a \in Counting(c) /\ jobs[a].seen > 0
      /\ jobs[a] \in Job /\ jobs \in [Actors -> Job] /\ clients[c] \in Client
  BY DEF Count, Shape, ActorShape, Using, Holders, Counting, Typed
<1>2. ~clients[c].freed /\ c \notin misused'
  BY <1>1, NotFreed DEF Count
<1>3. jobs[a].seen = clients[c].ref_count
  BY <1>1 DEF Counted, Count
<1>4. /\ jobs'[a].conn = c /\ jobs'[a].at = "last" /\ jobs'[a].seen = jobs[a].seen
      /\ \A b \in Actors \ {a} : jobs'[b] = jobs[b]
  BY <1>1 DEF Count, Goto, Job
<1>5. /\ clients'[c].ref_count = clients[c].ref_count - 1 /\ clients'[c].opened = clients[c].opened
      /\ clients'[c].freed = clients[c].freed
  BY <1>1, <1>3 DEF Count, Client, Typed
<1>6. Counting(c) = {a}
  BY <1>1 DEF Counted
<1>7. Counting(c)' = {a}
  BY <1>4, <1>6 DEF Counting
<1>8. Using(c)' = Using(c)
  BY <1>1, <1>4 DEF Using
<1>9. Holders(c)' = Holders(c) \ {a}
  BY <1>1, <1>4 DEF Holders, Using
<1>10. Cardinality(Holders(c)') = Cardinality(Holders(c)) - 1
  BY <1>1, <1>9, HoldersFinite, FS_RemoveElement, ZenonT(30)
<1>11. clients'[c].ref_count = (IF clients'[c].opened THEN 1 ELSE 0) + Cardinality(Holders(c)')
  <2>1. Cardinality(Holders(c)) \in Nat
    BY HoldersFinite
  <2> QED
    BY <1>1, <1>5, <1>10, <2>1 DEF Counted
<1>12. jobs'[a].seen > 0 /\ jobs'[a].at = "last"
  BY <1>1, <1>4
<1> QED
  BY <1>1, <1>2, <1>5, <1>7, <1>8, <1>11, <1>12 DEF Counted

\* ... as the actor frees the Client, or leaves it to others.
LEMMA CountedDelete ==
  ASSUME IInv, NEW a \in Actors, NEW c \in Conns, jobs[a].conn = c, Counted(c), DeleteThis(a)
  PROVE  Counted(c)'
<1> USE DEF IInv
<1>1. /\ Made(c) /\ a \notin Holders(c) /\ a \in Using(c) /\ a \in Counting(c) /\ jobs[a].seen > 0
      /\ jobs[a] \in Job /\ jobs \in [Actors -> Job] /\ clients[c] \in Client
      /\ Loop \in Actors /\ Loop \notin Threads
  BY Bounded DEF DeleteThis, Shape, ActorShape, Using, Holders, Counting, Typed, Counted, Actors
<1>2. ~clients[c].freed /\ c \notin misused'
  BY <1>1, NotFreed DEF DeleteThis
<1>3. \/ jobs[a].query > 0 /\ a = Loop /\ clients[c].opened /\ jobs'[a].conn = c /\ jobs'[a].at = "test"
      \/ ~(jobs[a].query > 0) /\ jobs'[a] = Idle
  <2>1. ActorShape(a) /\ jobs[a].at = "last"
    BY DEF Shape, DeleteThis
  <2>2. jobs[a].query > 0 => a = Loop /\ clients[c].opened
    <3>1. a # Loop => a \in Threads
      BY DEF Actors
    <3> QED
      BY <1>1, <2>1, <3>1 DEF ActorShape, Job
  <2>3. jobs[a].query > 0 => jobs'[a] = [jobs[a] EXCEPT !.at = "test", !.size = 1, !.seen = 0]
    BY <1>1 DEF DeleteThis
  <2>4. ~(jobs[a].query > 0) => jobs'[a] = Idle
    BY <1>1 DEF DeleteThis
  <2> QED
    BY <1>1, <2>2, <2>3, <2>4, ZenonT(30) DEF Job
<1>4. \A b \in Actors \ {a} : jobs'[b] = jobs[b]
  BY DEF DeleteThis, Typed
<1>5. Counting(c) = {a}
  BY <1>1 DEF Counted
<1>6. Counting(c)' = {}
  <2>1. a \notin Counting(c)'
    BY <1>3 DEF Counting, Idle
  <2> QED
    BY <1>4, <1>5, <2>1 DEF Counting
<1>7. Holders(c)' = Holders(c)
  <2>1. a \notin Holders(c)'
    BY <1>1, <1>3 DEF Holders, Idle
  <2> QED
    BY <1>1, <1>4, <2>1 DEF Holders, Using
<1>8. /\ clients'[c].ref_count = clients[c].ref_count /\ clients'[c].opened = clients[c].opened
      /\ clients'[c].fd = clients[c].fd
      /\ clients'[c].freed = (clients[c].ref_count = 0)
  BY <1>1, <1>2 DEF DeleteThis, Client, Typed
<1>9. Cardinality(Holders(c)) \in Nat /\ (Cardinality(Holders(c)) = 0 <=> Holders(c) = {})
  BY HoldersFinite, FS_EmptySet
<1>10. clients[c].ref_count = 0 <=> ~clients[c].opened /\ Holders(c) = {}
  BY <1>1, <1>9 DEF Counted
<1>11. ~clients[c].opened => (Holders(c) = {} <=> Using(c)' = {})
  <2> SUFFICES ASSUME ~clients[c].opened PROVE Holders(c) = {} <=> Using(c)' = {}
    OBVIOUS
  <2>1. a \notin Using(c)'
    BY <1>1, <1>3, Bounded DEF Using, Idle
  <2>2. \A b \in Actors \ {a} : b \in Using(c) => b \in Holders(c)
    <3> SUFFICES ASSUME NEW b \in Actors \ {a}, jobs[b].conn = c PROVE b \in Holders(c)
      BY DEF Using
    <3>1. ActorShape(b) /\ jobs[b].at \in Stops /\ jobs[b].at # "idle" /\ jobs[b].query \in Nat
      <4>1. ActorShape(b) /\ jobs[b] \in Job /\ c # NoConn
        BY Bounded DEF Shape, Typed
      <4>2. jobs[b].at # "idle"
        BY <4>1 DEF ActorShape, Idle
      <4> QED
        BY <4>1, <4>2 DEF Job
    <3>2. jobs[b].at \notin {"ref", "count", "last"}
      BY <1>5 DEF Counting
    <3>3. b = Loop => jobs[b].at = "unref"
      BY <1>1, <3>1, <3>2 DEF ActorShape, Stops
    <3>4. b # Loop => b \in Threads
      BY DEF Actors
    <3> QED
      BY <3>1, <3>2, <3>3, <3>4 DEF Holders, Using, Stops
  <2>3. Using(c)' = Using(c) \ {a}
    BY <1>4, <2>1 DEF Using
  <2> QED
    BY <1>1, <2>2, <2>3 DEF Holders, Using
<1> QED
  BY <1>1, <1>2, <1>6, <1>7, <1>8, <1>10, <1>11 DEF Counted

\* ... as a thread is made, with a reference of its own.
LEMMA CountedRef ==
  ASSUME IInv, NEW a \in Threads, NEW c \in Conns, jobs[Loop].conn = c, Counted(c), Ref(a)
  PROVE  Counted(c)'
<1> USE DEF IInv
<1>1. /\ Loop \in Actors /\ Loop \notin Threads /\ a \in Actors /\ NoConn \notin Conns
      /\ jobs[Loop] \in Job /\ jobs \in [Actors -> Job] /\ clients[c] \in Client
  BY Bounded DEF Actors, Typed
<1>2. /\ Made(c) /\ Loop \notin Holders(c) /\ Loop \in Using(c) /\ Loop \in Counting(c)
      /\ clients[c].opened
  BY <1>1 DEF Ref, Shape, ActorShape, Using, Holders, Counting
<1>3. ~clients[c].freed /\ c \notin misused'
  BY <1>2, NotFreed DEF Ref
<1>4. Counting(c) = {Loop} /\ jobs[Loop].seen = clients[c].ref_count
  BY <1>2 DEF Counted, Ref
<1>5. /\ clients'[c].ref_count = clients[c].ref_count + 1 /\ clients'[c].opened = clients[c].opened
      /\ clients'[c].freed = clients[c].freed
  BY <1>1, <1>4 DEF Ref, Client, Typed
<1>6. \E b \in Actors :
        /\ b \notin Holders(c) /\ jobs'[b].conn = c
        /\ (b = a /\ jobs'[b].at = "work") \/ (b = Loop /\ jobs'[b].at = "unref")
        /\ b # Loop => jobs'[Loop] = Idle
        /\ \A e \in Actors \ {Loop, b} : jobs'[e] = jobs[e]
  <2>1. CASE /\ jobs[a].at = "idle"
             /\ jobs' = [jobs EXCEPT ![Loop] = Idle,
                                     ![a] = [jobs[Loop] EXCEPT !.at = "work", !.tid = NoTid, !.seen = 0]]
    <3>1. jobs'[a] = [jobs[Loop] EXCEPT !.at = "work", !.tid = NoTid, !.seen = 0] /\ jobs'[Loop] = Idle
          /\ \A e \in Actors \ {Loop, a} : jobs'[e] = jobs[e]
      BY <1>1, <2>1
    <3>2. jobs'[a].at = "work" /\ jobs'[a].conn = c
      BY <1>1, <3>1 DEF Job
    <3>3. a \notin Holders(c)
      BY <2>1 DEF Holders
    <3>4. jobs'[a].conn = c /\ (a # Loop => jobs'[Loop] = Idle) /\ a \in Actors
      BY <1>1, <3>1, <3>2
    <3> QED
      BY <2>1, <3>1, <3>2, <3>3, <3>4
  <2>2. CASE Goto(Loop, "unref")
    BY <1>1, <1>2, <2>2 DEF Goto, Job
  <2> QED
    BY <2>1, <2>2 DEF Ref
<1>7. PICK b \in Actors :
        /\ b \notin Holders(c) /\ jobs'[b].conn = c
        /\ (b = a /\ jobs'[b].at = "work") \/ (b = Loop /\ jobs'[b].at = "unref")
        /\ b # Loop => jobs'[Loop] = Idle
        /\ \A e \in Actors \ {Loop, b} : jobs'[e] = jobs[e]
  BY <1>6
<1>8. Counting(c)' = {}
  <2>1. b \notin Counting(c)' /\ Loop \notin Counting(c)'
    BY <1>7 DEF Counting, Idle
  <2> QED
    BY <1>4, <1>7, <2>1 DEF Counting
<1>9. Holders(c)' = Holders(c) \cup {b}
  <2>1. b \in Holders(c)'
    BY <1>7 DEF Holders, Using
  <2>2. b # Loop => Loop \notin Holders(c)'
    BY <1>1, <1>7 DEF Holders, Using, Idle
  <2> QED
    BY <1>2, <1>7, <2>1, <2>2 DEF Holders, Using
<1>10. Cardinality(Holders(c)') = Cardinality(Holders(c)) + 1 /\ Cardinality(Holders(c)) \in Nat
  BY <1>7, <1>9, HoldersFinite, FS_AddElement
<1>11. clients'[c].ref_count = (IF clients'[c].opened THEN 1 ELSE 0) + Cardinality(Holders(c)')
  BY <1>2, <1>5, <1>10 DEF Counted
<1> QED
  BY <1>2, <1>3, <1>5, <1>8, <1>11 DEF Counted

\* The reference counts at first.
LEMMA CountedInit ==
  ASSUME Init
  PROVE  RefsCounted
<1>1. \A c \in Conns : ~Made(c) /\ c \notin misused
  BY DEF Init, ClientsInit, Made, Unmade
<1>2. \A c \in Conns : Counting(c) = {}
  BY IInvInit, MadeBefore, <1>1
<1> QED
  BY <1>1, <1>2 DEF RefsCounted, Counted

\* The reference counts, in every step.
LEMMA CountedNext ==
  ASSUME IInv, RefsCounted, [Next]_vars
  PROVE  RefsCounted'
<1> USE DEF IInv
<1> SUFFICES ASSUME NEW c \in Conns, c \notin tangled' PROVE Counted(c)'
  BY DEF RefsCounted
<1>1. CASE PhpStep \/ UNCHANGED vars
  <2>1. UNCHANGED serverVars
    BY <1>1, PhpFrame DEF vars
  <2>2. UNCHANGED <<clients, jobs, tangled, misused>>
    BY <2>1 DEF serverVars
  <2> QED
    <3>1. Counted(c) /\ c \notin misused'
      BY <2>2 DEF RefsCounted, Counted
    <3> QED
      BY <2>2, <3>1, Untouched
<1>2. CASE LoopStep
  <2>1. PICK d \in Conns : Connect(d) \/ Receive(d) \/ Error(d)
    BY <1>2 DEF LoopStep
  <2>2. tangled \subseteq tangled'
    BY <2>1 DEF Connect, Receive, Error, Overlap, Closed
  <2>3. Counted(c)
    BY <2>2 DEF RefsCounted
  <2>4. CASE c = d
    BY <2>1, <2>3, <2>4, CountedConnect, CountedClosed, CountedReceive DEF Error
  <2>5. CASE c # d
    <3>1. clients'[c] = clients[c]
      <4>1. CASE Connect(d)
        <5>1. d \in backlog
          BY <4>1 DEF Connect
        <5>2. PICK f \in Fds : clients' = [clients EXCEPT ![d] = NewClient(f)]
          BY <4>1, <5>1, FreeDescriptor DEF Connect
        <5> QED
          BY <2>5, <5>2 DEF Typed
      <4>2. CASE Receive(d) \/ Error(d)
        BY <2>5, <4>2 DEF Receive, Error, Closed, Typed
      <4> QED
        BY <2>1, <4>1, <4>2
    <3>2. c \notin misused'
      BY <2>1, <2>3, <2>5 DEF Connect, Receive, Error, Use, Counted
    <3>3. \A a \in Actors : jobs'[a] = jobs[a] \/ (jobs[a].conn # c /\ jobs'[a].conn # c)
      <4>1. CASE jobs' = jobs
        BY <4>1
      <4>2. CASE Receive(d) \/ Error(d)
        <5>1. clients[d].opened /\ jobs[Loop].at = "idle" /\ (Receive(d) => inbox[d] # <<>>)
          BY <4>2 DEF Receive, Error
        <5>2. jobs[Loop].conn = NoConn /\ NoConn # c /\ Loop \in Actors
          BY <5>1, Bounded DEF Shape, ActorShape, Actors, Idle
        <5>3. \A a \in Actors \ {Loop} : jobs'[a] = jobs[a]
          BY <4>2 DEF Receive, Error, Closed, Typed
        <5>4. CASE Closed(d)
          <6>1. jobs'[Loop].conn = d
            BY <5>2, <5>4, Dropping DEF Closed, Typed
          <6> QED
            BY <2>5, <5>2, <5>3, <6>1
        <5>5. CASE Receive(d) /\ ~Closed(d)
          <6> DEFINE q == Parsed(inbox[d])
          <6>1. \/ jobs' = jobs
                \/ jobs' = [jobs EXCEPT ![Loop] = Answering(q)]
                \/ jobs' = [jobs EXCEPT ![Loop] =
                              [Answering(q) EXCEPT !.at = "ref", !.seen = clients[d].ref_count,
                                                   !.size = IF q.kind = "late" THEN q.size ELSE 0]]
            BY <5>5 DEF Receive
          <6>2. /\ Answering(q) = [at |-> "test", conn |-> d, query |-> q.id, tid |-> q.tid,
                                   size |-> q.size, out |-> 0, seen |-> 0]
                /\ [Answering(q) EXCEPT !.at = "ref", !.seen = clients[d].ref_count,
                                        !.size = IF q.kind = "late" THEN q.size ELSE 0] =
                    [at |-> "ref", conn |-> d, query |-> q.id, tid |-> q.tid,
                     size |-> IF q.kind = "late" THEN q.size ELSE 0, out |-> 0,
                     seen |-> clients[d].ref_count]
            BY <5>1, <5>5, ReceivedJobs
          <6> HIDE DEF q
          <6>3. jobs' = jobs \/ jobs'[Loop].conn = d
            BY <5>2, <6>1, <6>2 DEF Typed
          <6> QED
            BY <2>5, <5>2, <5>3, <6>3
        <5> QED
          BY <4>2, <5>4, <5>5 DEF Error
      <4> QED
        BY <2>1, <4>1, <4>2 DEF Connect
    <3> QED
      BY <2>3, <3>1, <3>2, <3>3, Untouched
  <2> QED
    BY <2>4, <2>5
<1>3. ASSUME NEW a \in Actors, ActorStep(a), UNCHANGED phpVars PROVE Counted(c)'
  <2>1. tangled \subseteq tangled'
    BY <1>3 DEF ActorStep, Test, Write, GiveUp, Unref, Count, DeleteThis, Work, Ref, Overlap
  <2>2. Counted(c)
    BY <2>1 DEF RefsCounted
  <2> DEFINE b == IF Ref(a) /\ a \in Threads THEN Loop ELSE a
             d == jobs[b].conn
  <2>3. Loop \in Actors /\ Loop \notin Threads /\ b \in Actors /\ NoConn # c
    BY Bounded DEF Actors
  <2>4. CASE d = c
    <3>1. CASE a \in Threads /\ Ref(a)
      BY <2>2, <2>4, <3>1, CountedRef
    <3>2. CASE ~(a \in Threads /\ Ref(a))
      BY <1>3, <2>2, <2>4, <3>2, CountedAnswer, CountedUnref, CountedCount, CountedDelete DEF ActorStep
    <3> QED
      BY <3>1, <3>2
  <2>5. CASE d # c
    <3>1. c \notin misused' /\ clients'[c] = clients[c]
      <4>1. CASE a \in Threads /\ Ref(a)
        BY <2>2, <2>5, <4>1 DEF Ref, Use, Counted, Typed
      <4>2. CASE ~(a \in Threads /\ Ref(a))
        BY <1>3, <2>2, <2>5, <4>2
           DEF ActorStep, Test, Write, GiveUp, Unref, Count, DeleteThis, Work, Use, Counted, Typed
      <4> QED
        BY <4>1, <4>2
    <3>2. ASSUME NEW e \in Actors PROVE jobs'[e] = jobs[e] \/ (jobs[e].conn # c /\ jobs'[e].conn # c)
      <4>1. e # a /\ ~(a \in Threads /\ Ref(a)) => jobs'[e] = jobs[e]
        BY <1>3, AnsweredJobs
           DEF ActorStep, Test, Write, GiveUp, Unref, Count, DeleteThis, Work, Goto, Typed
      <4>2. a \in Threads /\ Ref(a) /\ e # a /\ e # Loop => jobs'[e] = jobs[e]
        BY DEF Ref, Goto, Typed
      <4>3. Idle.conn = NoConn
        BY DEF Idle
      <4>4. jobs[e].at = "idle" => jobs[e].conn = NoConn
        BY <4>3 DEF Shape, ActorShape
      <4>5. CASE jobs'[e] # jobs[e] /\ e = b
        <5>1. b # Loop => jobs[b].at # "idle"
          BY <1>3 DEF ActorStep, Test, Write, GiveUp, Unref, Count, DeleteThis, Work
        <5>2. b = Loop => b \notin Threads
          BY <2>3
        <5>3. jobs'[e].conn \in {jobs[e].conn, NoConn}
          <6>1. ~(e \in Threads /\ jobs[e].at = "idle")
            BY <4>5, <5>1, <5>2
          <6>2. jobs'[e] = Idle \/ jobs'[e].conn = jobs[e].conn
            <7>1. \/ jobs'[e] = jobs[e]
                  \/ jobs'[e] = Idle
                  \/ Dropped(e)
                  \/ jobs'[e].conn = jobs[e].conn
                  \/ e \in Threads /\ jobs[e].at = "idle"
              BY <1>3, ActorJobs
            <7> QED
              BY <6>1, <7>1 DEF Dropped
          <6> QED
            BY <4>3, <6>2
        <5>4. jobs[e].conn # c
          BY <2>5, <4>5
        <5> QED
          BY <2>3, <5>3, <5>4
      <4>6. CASE jobs'[e] # jobs[e] /\ e # b
        <5>1. e = a /\ a \in Threads /\ Ref(a)
          BY <4>1, <4>2, <4>6
        <5>2. jobs[e].at = "idle" /\ jobs' = [jobs EXCEPT ![Loop] = Idle,
                      ![e] = [jobs[Loop] EXCEPT !.at = "work", !.tid = NoTid, !.seen = 0]]
          BY <2>3, <4>6, <5>1 DEF Ref, Goto, Typed
        <5>3. jobs'[e] = [jobs[Loop] EXCEPT !.at = "work", !.tid = NoTid, !.seen = 0]
          BY <2>3, <4>6, <5>2 DEF Typed
        <5>4. jobs'[e].conn = jobs[Loop].conn
          BY <2>3, <5>3 DEF Typed, Job
        <5> QED
          BY <2>3, <2>5, <4>4, <5>1, <5>2, <5>4
      <4> QED
        BY <4>5, <4>6
    <3> QED
      BY <2>2, <3>1, <3>2, Untouched
  <2> QED
    BY <2>4, <2>5
<1> QED
  BY <1>1, <1>2, <1>3 DEF Next, ServerStep

\* FreedWhenUnused holds in every state: a Client is freed once its connection is
\* closed and no thread has it, and not used after, as long as no two actors
\* have changed its ref_count at once (events.cc:132-146).
THEOREM ClientsFreedInTime == Spec => []FreedWhenUnused
<1>1. Init => IInv /\ RefsCounted
  BY IInvInit, CountedInit
<1>2. IInv /\ RefsCounted /\ [Next]_vars => (IInv /\ RefsCounted)'
  BY IInvNext, CountedNext
<1>3. RefsCounted => FreedWhenUnused
  BY DEF RefsCounted, Counted, FreedWhenUnused
<1> QED
  BY <1>1, <1>2, <1>3, PTL DEF Spec

-----------------------------------------------------------------------------
\* The pieces on the wrong connection.
SInv == OneAnswer /\ StraysAreLast

\* What the loop's reading of a command does to its job and to what is unread.
LEMMA LoopReads ==
  ASSUME IInv, LoopStep
  PROVE  /\ outbox' = outbox /\ sent \in Nat
         /\ \A a \in Actors \ {Loop} : jobs'[a] = jobs[a]
         /\ \A c \in Conns : inbox'[c] = inbox[c] \/ inbox'[c] = <<>>
         /\ \A c \in Conns : clients'[c].opened /\ ~clients[c].opened => Using(c) = {}
         /\ \/ jobs'[Loop] = jobs[Loop]
            \/ jobs'[Loop].query = 0 /\ jobs'[Loop].tid = NoTid
            \/ \E c \in Conns : /\ 1 \in DOMAIN inbox[c] /\ inbox'[c] = <<>> /\ clients[c].opened
                                /\ jobs'[Loop].query = inbox[c][1].id /\ jobs'[Loop].tid = inbox[c][1].tid
                                /\ jobs'[Loop].conn = c
<1> USE DEF IInv
<1>1. PICK c \in Conns : Connect(c) \/ Receive(c) \/ Error(c)
  BY DEF LoopStep
<1>2. Loop \in Actors /\ sent \in Nat
  BY Bounded DEF Actors
<1>3. CASE Connect(c)
  <2>1. c \in backlog
    BY <1>3 DEF Connect
  <2>2. PICK f \in Fds : clients' = [clients EXCEPT ![c] = NewClient(f)]
    BY <1>3, <2>1, FreeDescriptor DEF Connect
  <2>3. Using(c) = {} /\ \A d \in Conns \ {c} : clients'[d] = clients[d]
    BY <2>1, <2>2, MadeBefore DEF Shape, ConnShape, Typed
  <2> QED
    BY <1>2, <1>3, <2>3 DEF Connect
<1>4. CASE (Receive(c) \/ Error(c)) /\ Closed(c)
  <2>1. jobs'[Loop].query = 0 /\ jobs'[Loop].tid = NoTid
    BY <1>2, <1>4, Dropping DEF Closed, Typed
  <2>2. \A d \in Conns : clients'[d].opened => clients[d].opened
    BY <1>4 DEF Closed, Typed, Client
  <2>3. \A d \in Conns : inbox'[d] = inbox[d] \/ inbox'[d] = <<>>
    BY <1>4 DEF Receive, Error, Typed
  <2>4. outbox' = outbox /\ \A a \in Actors \ {Loop} : jobs'[a] = jobs[a]
    BY <1>4 DEF Receive, Error, Closed, Typed
  <2> QED
    BY <1>2, <2>1, <2>2, <2>3, <2>4
<1>5. CASE Receive(c) /\ ~Closed(c)
  <2> DEFINE q == Parsed(inbox[c])
  <2>1. clients[c].opened /\ inbox[c] # <<>>
    BY <1>5 DEF Receive
  <2>2. /\ outbox' = outbox /\ clients' = clients /\ inbox' = [inbox EXCEPT ![c] = <<>>]
        /\ \/ jobs' = jobs
           \/ jobs' = [jobs EXCEPT ![Loop] = Answering(q)]
           \/ jobs' = [jobs EXCEPT ![Loop] =
                         [Answering(q) EXCEPT !.at = "ref", !.seen = clients[c].ref_count,
                                              !.size = IF q.kind = "late" THEN q.size ELSE 0]]
    BY <1>5 DEF Receive
  <2>3. /\ q.id = inbox[c][1].id /\ q.tid = inbox[c][1].tid /\ 1 \in DOMAIN inbox[c]
        /\ Answering(q) = [at |-> "test", conn |-> c, query |-> q.id, tid |-> q.tid,
                           size |-> q.size, out |-> 0, seen |-> 0]
        /\ [Answering(q) EXCEPT !.at = "ref", !.seen = clients[c].ref_count,
                                !.size = IF q.kind = "late" THEN q.size ELSE 0] =
            [at |-> "ref", conn |-> c, query |-> q.id, tid |-> q.tid,
             size |-> IF q.kind = "late" THEN q.size ELSE 0, out |-> 0,
             seen |-> clients[c].ref_count]
    BY <2>1, ReceivedJobs
  <2> HIDE DEF q
  <2>4. \/ jobs' = jobs
        \/ jobs'[Loop].conn = c /\ jobs'[Loop].query = q.id /\ jobs'[Loop].tid = q.tid
    BY <1>2, <2>2, <2>3 DEF Typed
  <2>5. \A a \in Actors \ {Loop} : jobs'[a] = jobs[a]
    BY <2>2 DEF Typed
  <2>6. inbox'[c] = <<>> /\ \A d \in Conns \ {c} : inbox'[d] = inbox[d]
    BY <2>2 DEF Typed
  <2> QED
    BY <1>2, <2>1, <2>2, <2>3, <2>4, <2>5, <2>6
<1> QED
  BY <1>1, <1>3, <1>4, <1>5 DEF Error

\* The pieces on the wrong connection, in the steps of the loop.
LEMMA LoopStrays ==
  ASSUME IInv, SInv, LoopStep, UNCHANGED phpVars
  PROVE  SInv'
<1> USE DEF IInv
<1>1. /\ outbox' = outbox /\ sent \in Nat /\ sent' = sent
      /\ \A a \in Actors \ {Loop} : jobs'[a] = jobs[a]
      /\ \A c \in Conns : inbox'[c] = inbox[c] \/ inbox'[c] = <<>>
      /\ \A c \in Conns : clients'[c].opened /\ ~clients[c].opened => Using(c) = {}
  BY LoopReads DEF phpVars
<1>2. \/ jobs'[Loop] = jobs[Loop]
      \/ jobs'[Loop].query = 0
      \/ \E c \in Conns : /\ 1 \in DOMAIN inbox[c] /\ inbox'[c] = <<>>
                          /\ jobs'[Loop].query = inbox[c][1].id
  BY LoopReads
<1>3. \A c \in Conns : \A i \in DOMAIN inbox'[c] : i \in DOMAIN inbox[c] /\ inbox'[c][i] = inbox[c][i]
  BY <1>1
<1>4. \A c \in Conns : \A i \in DOMAIN inbox[c] : inbox[c][i].id \in 1 .. sent
  BY DEF Shape, ConnShape
<1>5. OneAnswer'
  <2>1. \A c, d \in Conns : \A i \in DOMAIN inbox'[c], j \in DOMAIN inbox'[d] :
          inbox'[c][i].id = inbox'[d][j].id => c = d /\ i = j
    BY <1>3 DEF SInv, OneAnswer
  <2>2. ASSUME NEW c \in Conns, NEW a \in Actors, NEW i \in DOMAIN inbox'[c]
        PROVE  inbox'[c][i].id # jobs'[a].query
    <3>1. i \in DOMAIN inbox[c] /\ inbox'[c][i] = inbox[c][i] /\ inbox'[c] # <<>>
      BY <1>3
    <3>2. CASE jobs'[a].query = jobs[a].query
      BY <3>1, <3>2 DEF SInv, OneAnswer
    <3>3. CASE jobs'[a].query = 0
      BY <1>4, <3>1, <3>3
    <3>4. ASSUME NEW d \in Conns, 1 \in DOMAIN inbox[d], inbox'[d] = <<>>, jobs'[a].query = inbox[d][1].id
          PROVE  inbox'[c][i].id # jobs'[a].query
      BY <3>1, <3>4 DEF SInv, OneAnswer
    <3> QED
      BY <1>1, <1>2, <3>2, <3>3, <3>4
  <2>3. ASSUME NEW a \in Actors, NEW b \in Actors, jobs'[a].query = jobs'[b].query, jobs'[a].query > 0
        PROVE  a = b
    <3>1. CASE jobs'[a].query = jobs[a].query /\ jobs'[b].query = jobs[b].query
      BY <2>3, <3>1 DEF SInv, OneAnswer
    <3>2. ASSUME NEW d \in Conns, 1 \in DOMAIN inbox[d], jobs'[Loop].query = inbox[d][1].id
          PROVE  a = b
      BY <1>1, <2>3, <3>2 DEF SInv, OneAnswer
    <3> QED
      BY <1>1, <1>2, <2>3, <3>1, <3>2
  <2> QED
    BY <2>1, <2>2, <2>3 DEF OneAnswer
<1>6. StraysAreLast'
  <2> SUFFICES ASSUME NEW c \in Conns, NEW i \in DOMAIN outbox[c]
               PROVE  /\ outbox[c][i].query \in 1 .. sent
                      /\ Stray(c, i) =>
                         /\ \A d \in Conns : \A j \in DOMAIN inbox'[d] : inbox'[d][j].id # outbox[c][i].query
                         /\ \A a \in Actors : jobs'[a].query = outbox[c][i].query =>
                              jobs'[a].at = "test" /\ ~clients'[jobs'[a].conn].opened
                         /\ \A j \in DOMAIN outbox[c] :
                              Stray(c, j) /\ outbox[c][j].query = outbox[c][i].query => i = j
    BY <1>1 DEF StraysAreLast, Stray
  <2>1. outbox[c][i].query \in 1 .. sent
    BY DEF SInv, StraysAreLast
  <2>2. ASSUME Stray(c, i), NEW a \in Actors, jobs'[a].query = outbox[c][i].query
        PROVE  jobs'[a].at = "test" /\ ~clients'[jobs'[a].conn].opened
    <3>1. CASE jobs'[a] = jobs[a]
      <4>1. jobs[a].at = "test" /\ ~clients[jobs[a].conn].opened
        BY <2>2, <3>1 DEF SInv, StraysAreLast
      <4>2. jobs[a].conn \in Conns /\ a \in Using(jobs[a].conn)
        BY <4>1 DEF Shape, ActorShape, Using
      <4> QED
        BY <1>1, <3>1, <4>1, <4>2
    <3>2. CASE jobs'[a].query = 0
      BY <1>1, <2>1, <2>2, <3>2
    <3>3. ASSUME NEW d \in Conns, 1 \in DOMAIN inbox[d], jobs'[a].query = inbox[d][1].id
          PROVE  FALSE
      <4>1. StraysAreLast
        BY DEF SInv
      <4>2. inbox[d][1].id # outbox[c][i].query
        BY <2>2, <3>3, <4>1 DEF StraysAreLast
      <4> QED
        BY <2>2, <3>3, <4>2
    <3> QED
      BY <1>1, <1>2, <3>1, <3>2, <3>3
  <2>3. Stray(c, i) => /\ \A d \in Conns : \A j \in DOMAIN inbox'[d] : inbox'[d][j].id # outbox[c][i].query
                       /\ \A j \in DOMAIN outbox[c] :
                            Stray(c, j) /\ outbox[c][j].query = outbox[c][i].query => i = j
    BY <1>3 DEF SInv, StraysAreLast
  <2> QED
    BY <2>1, <2>2, <2>3
<1> QED
  BY <1>5, <1>6 DEF SInv

\* ... in the steps of an answer and of a reference.
LEMMA ActorStrays ==
  ASSUME IInv, SInv, NEW a \in Actors, ActorStep(a), UNCHANGED phpVars
  PROVE  SInv'
<1> USE DEF IInv
<1>1. /\ inbox' = inbox /\ sent' = sent /\ \A c \in Conns : clients'[c].opened = clients[c].opened
  BY ActorFrame
<1>2. \A b \in Actors : jobs[b] \in Job /\ jobs[b].query \in Nat
  BY DEF Typed, Job
<1>3. ASSUME NEW b \in Actors
      PROVE  \/ jobs'[b].query = 0
             \/ jobs'[b].query = jobs[b].query
             \/ b \in Threads /\ jobs[Loop].at = "ref" /\ jobs'[Loop].query = 0 /\ jobs'[b].query = jobs[Loop].query
                /\ a = b
  <2>1. Idle.query = 0
    BY DEF Idle
  <2> QED
    BY <2>1, ActorJobs DEF Dropped
<1>4. Loop \in Actors
  BY DEF Actors
<1>5. OneAnswer'
  <2>1. \A c \in Conns, b \in Actors : \A i \in DOMAIN inbox[c] : inbox[c][i].id # jobs'[b].query
    <3>1. \A c \in Conns : \A i \in DOMAIN inbox[c] : inbox[c][i].id > 0
      BY Bounded DEF Shape, ConnShape
    <3> QED
      BY <1>3, <1>4, <3>1 DEF SInv, OneAnswer
  <2>2. ASSUME NEW b \in Actors, NEW e \in Actors, jobs'[b].query = jobs'[e].query, jobs'[b].query > 0
        PROVE  b = e
    <3>1. CASE jobs'[b].query = jobs[b].query /\ jobs'[e].query = jobs[e].query
      BY <2>2, <3>1 DEF SInv, OneAnswer
    <3>2. CASE b = a /\ jobs'[Loop].query = 0 /\ jobs'[b].query = jobs[Loop].query /\ e # a
      <4>1. jobs'[e].query = jobs[e].query
        BY <1>3, <2>2, <3>2
      <4>2. e = Loop
        BY <1>4, <2>2, <3>2, <4>1 DEF SInv, OneAnswer
      <4> QED
        BY <2>2, <3>2, <4>2
    <3>3. CASE e = a /\ jobs'[Loop].query = 0 /\ jobs'[e].query = jobs[Loop].query /\ b # a
      <4>1. jobs'[b].query = jobs[b].query
        BY <1>3, <2>2, <3>3
      <4>2. b = Loop
        BY <1>4, <2>2, <3>3, <4>1 DEF SInv, OneAnswer
      <4> QED
        BY <2>2, <3>3, <4>2
    <3> QED
      BY <1>3, <2>2, <3>1, <3>2, <3>3
  <2> QED
    BY <1>1, <2>1, <2>2 DEF SInv, OneAnswer
\* A job that is given up stays so.
<1>6. ASSUME NEW q \in Nat \ {0}, \A b \in Actors : jobs[b].query = q => jobs[b].at = "test" /\ ~clients[jobs[b].conn].opened
      PROVE  \A b \in Actors : jobs'[b].query = q => jobs'[b].at = "test" /\ ~clients'[jobs'[b].conn].opened
  <2> SUFFICES ASSUME NEW b \in Actors, jobs'[b].query = q
               PROVE  jobs'[b].at = "test" /\ ~clients'[jobs'[b].conn].opened
    OBVIOUS
  <2>1. CASE jobs'[b] = jobs[b]
    <3>1. jobs[b].at = "test" /\ ~clients[jobs[b].conn].opened
      BY <1>6, <2>1
    <3>2. jobs[b].conn \in Conns
      BY <3>1 DEF Shape, ActorShape
    <3> QED
      BY <1>1, <2>1, <3>1, <3>2
  <2>2. CASE jobs'[b] = Idle \/ jobs'[b].query = 0
    BY <2>2 DEF Idle
  <2>3. CASE jobs'[b].query = jobs[b].query
    <3>1. jobs[b].at = "test" /\ ~clients[jobs[b].conn].opened
      BY <1>6, <2>3
    <3> QED
      BY <2>1, <2>2, <3>1, ActorJobs DEF Dropped
  <2>4. CASE jobs'[b].query = jobs[Loop].query /\ jobs[Loop].at = "ref"
    BY <1>4, <1>6, <2>4
  <2> QED
    BY <1>3, <2>2, <2>3, <2>4
<1>7. CASE outbox' = outbox
  <2>1. ASSUME NEW c \in Conns, NEW i \in DOMAIN outbox[c]
        PROVE  /\ outbox[c][i].query \in 1 .. sent
               /\ Stray(c, i) =>
                  /\ \A d \in Conns : \A j \in DOMAIN inbox[d] : inbox[d][j].id # outbox[c][i].query
                  /\ \A b \in Actors : jobs'[b].query = outbox[c][i].query =>
                       jobs'[b].at = "test" /\ ~clients'[jobs'[b].conn].opened
                  /\ \A j \in DOMAIN outbox[c] :
                       Stray(c, j) /\ outbox[c][j].query = outbox[c][i].query => i = j
    <3>1. outbox[c][i].query \in 1 .. sent /\ outbox[c][i].query \in Nat \ {0}
      BY Bounded DEF SInv, StraysAreLast
    <3> QED
      BY <1>6, <3>1 DEF SInv, StraysAreLast
  <2>2. StraysAreLast'
    BY <1>1, <1>7, <2>1 DEF StraysAreLast, Stray
  <2> QED
    BY <1>5, <2>2 DEF SInv
<1>8. ASSUME NEW d \in Conns, jobs[a].at = "write", NextPiece(jobs[a]) \in Piece,
             clients[d].opened, clients[d].fd = clients[jobs[a].conn].fd, jobs[a].conn \in Conns,
             outbox' = [outbox EXCEPT ![d] = Append(outbox[d], NextPiece(jobs[a]))]
      PROVE  SInv'
  <2> DEFINE n == Len(outbox[d])
             p == NextPiece(jobs[a])
  <2>1. /\ outbox[d] \in Seq(Piece) /\ n \in Nat /\ DOMAIN outbox[d] = 1 .. n
        /\ outbox'[d] = Append(outbox[d], p) /\ DOMAIN outbox'[d] = 1 .. n + 1
        /\ \A i \in DOMAIN outbox[d] : outbox'[d][i] = outbox[d][i]
        /\ outbox'[d][n + 1] = p
        /\ \A c \in Conns \ {d} : outbox'[c] = outbox[c]
    <3>1. outbox[d] \in Seq(Piece) /\ outbox'[d] = Append(outbox[d], p)
          /\ \A c \in Conns \ {d} : outbox'[c] = outbox[c]
      BY <1>8 DEF Typed
    <3>2. p \in Piece
      BY <1>8
    <3> HIDE DEF p
    <3> QED
      BY <3>1, <3>2, Appended
  <2>2. p.query = jobs[a].query /\ p.conn = jobs[a].conn
    BY DEF NextPiece
  <2>3. jobs[a].query \in 1 .. sent /\ jobs[a].query \in Nat \ {0}
    BY <1>2, <1>8, Bounded DEF Shape, ActorShape
  <2>4. jobs[a].conn # d => ~clients[jobs[a].conn].opened
    <3>1. files[clients[d].fd] = d
      BY <1>8, Accepts
    <3> QED
      BY <1>8, <3>1, Accepts
  <2> HIDE DEF p, n
  <2>5. \A c \in Conns : \A i \in DOMAIN outbox[c] :
          i \in DOMAIN outbox'[c] /\ outbox'[c][i] = outbox[c][i]
    BY <2>1
  <2>6. \A c \in Conns : \A i \in DOMAIN outbox'[c] : i \in DOMAIN outbox[c] \/ (c = d /\ i = n + 1)
    BY <2>1
  \* No piece of this answer was on a wrong connection yet.
  <2>7. \A c \in Conns : \A i \in DOMAIN outbox[c] : outbox[c][i].query = jobs[a].query => ~Stray(c, i)
    BY <1>8 DEF SInv, StraysAreLast
  <2>8. ASSUME jobs[a].conn # d
        PROVE  \A b \in Actors : jobs'[b].query = jobs[a].query =>
                 jobs'[b].at = "test" /\ ~clients'[jobs'[b].conn].opened
    <3> SUFFICES ASSUME NEW b \in Actors, jobs'[b].query = jobs[a].query
                 PROVE  jobs'[b].at = "test" /\ ~clients'[jobs'[b].conn].opened
      OBVIOUS
    <3>1. b = a
      <4>1. jobs'[b].query = jobs[b].query \/ (jobs[Loop].at = "ref" /\ jobs'[b].query = jobs[Loop].query)
        BY <1>3, <2>3
      <4> QED
        BY <1>4, <1>8, <2>3, <4>1 DEF SInv, OneAnswer
    <3>2. jobs'[a].conn = jobs[a].conn /\ jobs'[a].at = "test"
      <4>1. jobs'[a] # Idle /\ jobs'[a].query # 0
        BY <2>3, <3>1 DEF Idle
      <4>2. jobs'[a] # jobs[a]
        <5>1. Write(a)
          <6>1. outbox' # outbox
            BY <2>1
          <6> QED
            BY <6>1 DEF ActorStep, Test, GiveUp, Unref, Count, DeleteThis, Work, Ref
        <5>2. CASE Answered(a)
          BY <1>8, <5>2, <4>1, AnsweredJobs DEF Dropped, Idle
        <5>3. CASE jobs' = [jobs EXCEPT ![a].at = "test", ![a].out = @ + 1]
          BY <1>2, <1>8, <5>3 DEF Typed, Job
        <5> QED
          BY <5>1, <5>2, <5>3 DEF Write
      <4> QED
        BY <1>8, <4>1, <4>2, ActorJobs DEF Dropped
    <3> QED
      BY <1>1, <1>8, <2>4, <2>8, <3>1, <3>2
  <2>9. ASSUME NEW c \in Conns, NEW i \in DOMAIN outbox'[c]
        PROVE  /\ outbox'[c][i].query \in 1 .. sent
               /\ outbox'[c][i].conn # c =>
                  /\ \A e \in Conns : \A j \in DOMAIN inbox[e] : inbox[e][j].id # outbox'[c][i].query
                  /\ \A b \in Actors : jobs'[b].query = outbox'[c][i].query =>
                       jobs'[b].at = "test" /\ ~clients'[jobs'[b].conn].opened
                  /\ \A j \in DOMAIN outbox'[c] :
                       outbox'[c][j].conn # c /\ outbox'[c][j].query = outbox'[c][i].query => i = j
    <3>1. CASE i \in DOMAIN outbox[c]
      <4>1. outbox'[c][i] = outbox[c][i]
        BY <2>5, <3>1
      <4>2. outbox[c][i].query \in 1 .. sent /\ outbox[c][i].query \in Nat \ {0}
        BY <3>1, Bounded DEF SInv, StraysAreLast
      <4>3. CASE Stray(c, i)
        <5>1. /\ \A e \in Conns : \A j \in DOMAIN inbox[e] : inbox[e][j].id # outbox[c][i].query
              /\ \A b \in Actors : jobs'[b].query = outbox[c][i].query =>
                   jobs'[b].at = "test" /\ ~clients'[jobs'[b].conn].opened
          BY <1>6, <3>1, <4>2, <4>3 DEF SInv, StraysAreLast
        <5>2. ASSUME NEW j \in DOMAIN outbox'[c], outbox'[c][j].conn # c,
                     outbox'[c][j].query = outbox'[c][i].query
              PROVE  i = j
          <6>1. CASE j \in DOMAIN outbox[c]
            BY <2>5, <3>1, <4>1, <4>3, <5>2, <6>1 DEF SInv, StraysAreLast, Stray
          <6>2. CASE c = d /\ j = n + 1
            BY <2>1, <2>2, <2>7, <3>1, <4>1, <4>3, <5>2, <6>2
          <6> QED
            BY <2>6, <6>1, <6>2
        <5> QED
          BY <4>1, <4>2, <5>1, <5>2
      <4>4. CASE ~Stray(c, i)
        BY <4>1, <4>2, <4>4 DEF Stray
      <4> QED
        BY <4>3, <4>4
    <3>2. CASE c = d /\ i = n + 1
      <4>1. outbox'[c][i] = p
        BY <2>1, <3>2
      <4>2. CASE jobs[a].conn = d
        BY <2>2, <2>3, <3>2, <4>1, <4>2
      <4>3. CASE jobs[a].conn # d
        <5>1. ASSUME NEW j \in DOMAIN outbox'[c], outbox'[c][j].conn # c,
                     outbox'[c][j].query = outbox'[c][i].query
              PROVE  i = j
          <6>1. CASE j \in DOMAIN outbox[c]
            BY <2>2, <2>5, <2>7, <4>1, <5>1, <6>1 DEF Stray
          <6> QED
            BY <2>6, <3>2, <6>1
        <5> QED
          BY <2>2, <2>3, <2>8, <4>1, <4>3, <5>1 DEF SInv, OneAnswer
      <4> QED
        BY <4>2, <4>3
    <3> QED
      BY <2>6, <3>1, <3>2
  <2>10. StraysAreLast'
    BY <1>1, <2>9 DEF StraysAreLast, Stray
  <2> QED
    BY <1>5, <2>10 DEF SInv
<1> QED
  BY <1>7, <1>8, ActorOutbox

\* ... in the steps of the PHP process.
LEMMA PhpStrays ==
  ASSUME IInv, SInv, PhpStep
  PROVE  SInv'
<1> USE DEF IInv
<1>1. /\ clients' = clients /\ jobs' = jobs /\ sent' >= sent /\ sent' \in Nat /\ sent \in Nat
  BY PhpFrame, Bounded DEF serverVars
<1>2. \A c \in Conns : \A i \in DOMAIN inbox'[c] :
        \/ i \in DOMAIN inbox[c] /\ inbox'[c][i] = inbox[c][i]
        \/ /\ inbox'[c][i].id = sent + 1 /\ sent' = sent + 1 /\ c = php'.socket
           /\ i = Len(inbox[c]) + 1
  <2> TAKE c \in Conns
  <2>1. CASE inbox'[c] = inbox[c]
    BY <2>1
  <2>2. CASE /\ c = php'.socket /\ sent' = sent + 1 /\ Command(c) \in Query
             /\ inbox'[c] = Append(inbox[c], Command(c))
    <3>1. inbox[c] \in Seq(Query) /\ Command(c).id = sent + 1
      BY SentPhp DEF Typed
    <3>2. /\ DOMAIN inbox[c] = 1 .. Len(inbox[c]) /\ DOMAIN inbox'[c] = 1 .. Len(inbox[c]) + 1
          /\ Len(inbox[c]) \in Nat /\ inbox'[c][Len(inbox[c]) + 1] = Command(c)
          /\ \A i \in DOMAIN inbox[c] : inbox'[c][i] = inbox[c][i]
      BY <2>2, <3>1, Appended
    <3> QED
      BY <2>2, <3>1, <3>2
  <2>3. \/ inbox'[c] = inbox[c]
        \/ /\ c = php'.socket /\ sent' = sent + 1 /\ Command(c) \in Query
           /\ inbox'[c] = Append(inbox[c], Command(c))
    BY PhpInbox DEF Typed
  <2> QED
    BY <2>1, <2>2, <2>3
<1>3. \A c \in Conns : \A i \in DOMAIN inbox[c] : inbox[c][i].id \in 1 .. sent
  BY DEF Shape, ConnShape
<1>4. \A a \in Actors : jobs[a].query \in Nat /\ jobs[a].query <= sent
  BY DEF Shape, ActorShape, Typed, Job
<1>5. OneAnswer'
  <2>1. ASSUME NEW c \in Conns, NEW d \in Conns, NEW i \in DOMAIN inbox'[c], NEW j \in DOMAIN inbox'[d],
               inbox'[c][i].id = inbox'[d][j].id
        PROVE  c = d /\ i = j
    <3>1. CASE i \in DOMAIN inbox[c] /\ inbox'[c][i] = inbox[c][i]
      <4>1. inbox'[d][j].id # sent + 1
        BY <1>1, <1>3, <2>1, <3>1
      <4> QED
        BY <1>2, <2>1, <3>1, <4>1 DEF SInv, OneAnswer
    <3>2. CASE inbox'[c][i].id = sent + 1 /\ c = php'.socket /\ i = Len(inbox[c]) + 1
      <4>1. ~(j \in DOMAIN inbox[d] /\ inbox'[d][j] = inbox[d][j])
        <5> SUFFICES ASSUME j \in DOMAIN inbox[d], inbox'[d][j] = inbox[d][j] PROVE FALSE
          OBVIOUS
        <5>1. inbox[d][j].id = sent + 1 /\ inbox[d][j].id \in 1 .. sent
          BY <1>3, <2>1, <3>2
        <5> QED
          BY <1>1, <5>1
      <4> QED
        BY <1>2, <3>2, <4>1
    <3> QED
      BY <1>2, <3>1, <3>2
  <2>2. \A c \in Conns, a \in Actors : \A i \in DOMAIN inbox'[c] : inbox'[c][i].id # jobs[a].query
    BY <1>1, <1>2, <1>4 DEF SInv, OneAnswer
  <2> QED
    BY <1>1, <2>1, <2>2 DEF SInv, OneAnswer
<1>6. StraysAreLast'
  <2> SUFFICES ASSUME NEW c \in Conns, NEW i \in DOMAIN outbox'[c]
               PROVE  /\ outbox'[c][i].query \in 1 .. sent'
                      /\ Stray(c, i)' =>
                         /\ \A d \in Conns : \A j \in DOMAIN inbox'[d] : inbox'[d][j].id # outbox'[c][i].query
                         /\ \A a \in Actors : jobs[a].query = outbox'[c][i].query =>
                              jobs[a].at = "test" /\ ~clients[jobs[a].conn].opened
                         /\ \A j \in DOMAIN outbox'[c] :
                              Stray(c, j)' /\ outbox'[c][j].query = outbox'[c][i].query => i = j
    BY <1>1 DEF StraysAreLast, Stray
  <2>1. PICK n \in Nat : \A j \in DOMAIN outbox'[c] :
          j \in Nat /\ n + j \in DOMAIN outbox[c] /\ outbox'[c][j] = outbox[c][n + j]
    BY PhpReads
  <2>2. outbox[c][n + i].query \in 1 .. sent /\ outbox'[c][i].query = outbox[c][n + i].query
    BY <2>1 DEF SInv, StraysAreLast
  <2>3. ASSUME Stray(c, i)'
        PROVE  /\ \A d \in Conns : \A j \in DOMAIN inbox[d] : inbox[d][j].id # outbox[c][n + i].query
               /\ \A a \in Actors : jobs[a].query = outbox[c][n + i].query =>
                    jobs[a].at = "test" /\ ~clients[jobs[a].conn].opened
               /\ \A j \in DOMAIN outbox[c] :
                    Stray(c, j) /\ outbox[c][j].query = outbox[c][n + i].query => n + i = j
    <3>1. n + i \in DOMAIN outbox[c] /\ Stray(c, n + i)
      BY <2>1, <2>3 DEF Stray
    <3> QED
      BY <3>1 DEF SInv, StraysAreLast
  <2>4. ASSUME Stray(c, i)', NEW d \in Conns, NEW j \in DOMAIN inbox'[d]
        PROVE  inbox'[d][j].id # outbox'[c][i].query
    BY <1>1, <1>2, <2>2, <2>3, <2>4
  <2>5. ASSUME Stray(c, i)', NEW j \in DOMAIN outbox'[c], Stray(c, j)',
               outbox'[c][j].query = outbox'[c][i].query
        PROVE  i = j
    <3>1. i \in Nat /\ j \in Nat /\ n + j \in DOMAIN outbox[c] /\ outbox'[c][j] = outbox[c][n + j]
      BY <2>1
    <3>2. Stray(c, n + j) /\ outbox[c][n + j].query = outbox[c][n + i].query
      BY <2>2, <2>5, <3>1 DEF Stray
    <3>3. n + i = n + j
      BY <2>3, <2>5, <3>1, <3>2
    <3> QED
      BY <2>1, <3>1, <3>3
  <2> QED
    BY <1>1, <2>2, <2>3, <2>4, <2>5
<1> QED
  BY <1>5, <1>6 DEF SInv

\* A set with no two elements.
LEMMA AtMostOne ==
  ASSUME NEW S, \A i, j \in S : i = j
  PROVE  Cardinality(S) <= 1
<1>1. CASE S = {}
  <2>1. Cardinality(S) = 0
    BY <1>1, FS_EmptySet, Zenon
  <2> QED
    BY <2>1
<1>2. ASSUME NEW i \in S PROVE Cardinality(S) <= 1
  <2>1. S = {i}
    BY <1>2
  <2>2. Cardinality(S) = 1
    BY <2>1, FS_Singleton, Zenon
  <2> QED
    BY <2>2
<1> QED
  BY <1>1, <1>2

\* OneStrayPiece holds in every state: an answer leaves one piece at most on a
\* connection that has reused the descriptor of its own (events.cc:36).
THEOREM StraysStop == Spec => []OneStrayPiece
<1>1. Init => IInv /\ SInv
  BY IInvInit DEF Init, ClientsInit, SInv, OneAnswer, StraysAreLast, Idle
<1>2. IInv /\ SInv /\ [Next]_vars => (IInv /\ SInv)'
  <2> SUFFICES ASSUME IInv, SInv, [Next]_vars PROVE SInv'
    BY IInvNext
  <2>1. CASE UNCHANGED vars
    BY <2>1 DEF vars, serverVars, phpVars, SInv, OneAnswer, StraysAreLast, Stray
  <2> QED
    BY <2>1, LoopStrays, ActorStrays, PhpStrays DEF Next, ServerStep
<1>3. IInv /\ SInv => OneStrayPiece
  <2> SUFFICES ASSUME IInv, SInv, NEW c \in Conns, NEW q \in 1 .. sent
               PROVE  Cardinality({i \in DOMAIN outbox[c] :
                                     outbox[c][i].query = q /\ outbox[c][i].conn # c}) <= 1
    BY DEF OneStrayPiece
  <2> DEFINE S == {i \in DOMAIN outbox[c] : outbox[c][i].query = q /\ outbox[c][i].conn # c}
  <2>1. \A i, j \in S : i = j
    BY DEF SInv, StraysAreLast, Stray
  <2> QED
    BY <2>1, AtMostOne
<1> QED
  BY <1>1, <1>2, <1>3, PTL DEF Spec

-----------------------------------------------------------------------------
\* The transaction ids.

\* A number less its remainder is a multiple.
LEMMA Quotient ==
  ASSUME NEW T \in Nat \ {0}, NEW x \in Nat
  PROVE  \E q \in Int : x - (x % T) = T * q
<1>1. x - (x % T) = T * (x \div T)
  OBVIOUS
<1>2. x \div T \in Int
  OBVIOUS
<1> QED
  BY <1>1, <1>2

\* Products distribute over differences.
LEMMA Times ==
  ASSUME NEW a \in Int, NEW b \in Int, NEW c \in Int
  PROVE  a * (b - c) = a * b - a * c
OBVIOUS

\* ... and over successors.
LEMMA TimesNext ==
  ASSUME NEW a \in Int, NEW b \in Int
  PROVE  a * (b + 1) = a * b + a
OBVIOUS

\* There is one remainder.
LEMMA Remainder ==
  ASSUME NEW T \in Nat \ {0}, NEW x \in Nat, NEW q \in Int, NEW r \in 0 .. T - 1, x - r = T * q
  PROVE  x % T = r
OBVIOUS

\* A remainder is less than the divisor.
LEMMA Below ==
  ASSUME NEW T \in Nat \ {0}, NEW x \in Nat
  PROVE  x % T \in 0 .. T - 1
OBVIOUS

\* What lies between two numbers of the same remainder.
LEMMA SameRemainder ==
  ASSUME NEW T \in Nat \ {0}, NEW x \in Nat, NEW y \in Nat, x % T = y % T, y <= x
  PROVE  (x - y) % T = 0
<1> DEFINE r == x % T
<1>0. r = y % T
  OBVIOUS
<1>1. \E q \in Int : x - r = T * q
  BY Quotient
<1>2. \E p \in Int : y - r = T * p
  BY Quotient, <1>0
<1>3. r \in 0 .. T-1
  BY Below
<1> HIDE DEF r
<1>4. PICK q \in Int, p \in Int : x - r = T * q /\ y - r = T * p
  BY <1>1, <1>2
<1>5. (x - y) - 0 = T * (q - p)
  <2>1. T * (q - p) = T * q - T * p
    BY Times
  <2> QED
    BY <1>3, <1>4, <2>1
<1>6. x - y \in Nat /\ q - p \in Int /\ 0 \in 0 .. T - 1
  OBVIOUS
<1> QED
  BY <1>5, <1>6, Remainder

\* The remainder of a successor.
LEMMA NextRemainder ==
  ASSUME NEW T \in Nat \ {0}, NEW x \in Nat
  PROVE  ((x % T) + 1) % T = (x + 1) % T
<1> DEFINE r == x % T
<1>1. \E q \in Int : x - r = T * q
  BY Quotient
<1>2. r \in 0 .. T - 1
  BY Below
<1> HIDE DEF r
<1>3. PICK q \in Int : x - r = T * q
  BY <1>1
<1>4. ASSUME r + 1 < T PROVE (r + 1) % T = (x + 1) % T
  <2>1. (x + 1) - (r + 1) = T * q /\ r + 1 \in 0 .. T - 1 /\ x + 1 \in Nat
    <3>1. (x + 1) - (r + 1) = x - r /\ r + 1 \in 0 .. T - 1
      BY <1>2, <1>4
    <3> QED
      BY <1>3, <3>1
  <2>2. (x + 1) % T = r + 1
    BY <2>1, Remainder
  <2>3. (r + 1) % T = r + 1
    BY <2>1
  <2> QED
    BY <2>2, <2>3, Zenon
<1>5. ASSUME r + 1 = T PROVE (r + 1) % T = (x + 1) % T
  <2>1. (x + 1) - 0 = T * (q + 1)
    <3>1. T * (q + 1) = T * q + T
      BY TimesNext
    <3> QED
      BY <1>2, <1>3, <1>5, <3>1
  <2>2. q + 1 \in Int /\ x + 1 \in Nat /\ 0 \in 0 .. T - 1
    OBVIOUS
  <2>3. (x + 1) % T = 0
    BY <2>1, <2>2, Remainder
  <2>4. T % T = 0
    <3>1. T - 0 = T * 1 /\ 0 \in 0 .. T - 1
      OBVIOUS
    <3> QED
      BY <3>1, Remainder
  <2> QED
    BY <1>5, <2>3, <2>4, Zenon
<1>6. r + 1 < T \/ r + 1 = T
  BY <1>2
<1> QED
  <2>1. (r + 1) % T = (x + 1) % T
    BY <1>4, <1>5, <1>6, Zenon
  <2> QED
    BY <2>1 DEF r

\* The transaction id of the next command.
LEMMA Numbering ==
  ASSUME IInv, NEW base \in 0 .. sent, Follows(base)
  PROVE  NextTid = ((sent + 1) - base) % TidLimit
<1>1. TidLimit \in Nat \ {0} /\ sent - base \in Nat /\ sent \in Nat /\ base \in Nat
  BY Bounded DEF IInv
<1>2. NextTid = (((sent - base) % TidLimit) + 1) % TidLimit
  BY DEF NextTid, Follows
<1>3. NextTid = ((sent - base) + 1) % TidLimit
  BY <1>1, <1>2, NextRemainder, Zenon
<1>4. (sent - base) + 1 = (sent + 1) - base
  BY <1>1
<1> QED
  BY <1>3, <1>4, Zenon

\* What has a number keeps it.
LEMMA NumbersStay ==
  ASSUME NEW id, NEW tid, NEW base \in Nat, Numbered(id, tid, base), sent \in Nat, sent' \in Nat, sent' >= sent
  PROVE  Numbered(id, tid, base)'
BY DEF Numbered

\* The socket, the transaction id and the commands, in the steps of PHP.
LEMMA PhpSocket ==
  ASSUME IInv, PhpStep
  PROVE  /\ \/ php'.socket = php.socket \/ php'.socket = NoConn
            \/ php'.socket \in Conns /\ php'.socket \notin backlog /\ ~Made(php'.socket)
         /\ \/ sent' = sent /\ php'.tid = php.tid
            \/ sent' = sent + 1 /\ php'.tid = NextTid
            \/ /\ sent' = sent /\ php'.tid = 0 /\ php'.got = <<>> /\ inbox' = inbox /\ outbox' = outbox
               /\ \/ php'.socket = NoConn
                  \/ php'.socket \in Conns /\ php'.socket \notin backlog /\ ~Made(php'.socket)
<1> USE DEF IInv
<1> DEFINE New(s) == s = NoConn \/ (s \in Conns /\ s \notin backlog /\ ~Made(s))
<1>1. php \in Resource
  BY DEF Typed
<1>2. \A s \in Conns \cup {NoConn} : SocketOpen(s) \/ Reconnect(s) => New(s)
  BY Sockets, Reconnects
<1> HIDE DEF New
<1>3. CASE TopyConnect
  <2>1. PICK s \in Conns \cup {NoConn} : SocketOpen(s) /\ php' = IF s = NoConn THEN php ELSE Fresh(s)
    BY <1>3 DEF TopyConnect
  <2>2. New(s) /\ inbox' = inbox /\ outbox' = outbox /\ sent' = sent
    BY <1>2, <1>3, <2>1 DEF TopyConnect
  <2>3. CASE s = NoConn
    BY <2>1, <2>2, <2>3
  <2>4. CASE s # NoConn
    <3>1. php'.socket = s /\ php'.tid = 0 /\ php'.got = <<>>
      BY <2>1, <2>4 DEF Fresh
    <3> QED
      BY <2>2, <2>4, <3>1 DEF New
  <2> QED
    BY <2>3, <2>4
<1>4. CASE ConnectionFree
  <2>1. php'.socket = NoConn /\ php'.tid = 0 /\ php'.got = <<>>
    BY <1>4 DEF ConnectionFree, Fresh
  <2> QED
    BY <1>4, <2>1 DEF ConnectionFree
<1>5. CASE \E s \in Conns \cup {NoConn} :
             /\ Reconnect(s) /\ sent' = sent
             /\ \/ php' = [php EXCEPT !.socket = s]
                \/ php' = [php EXCEPT !.at = "idle", !.socket = s]
                \/ php' = [php EXCEPT !.at = "idle", !.got = <<>>, !.socket = s]
  <2>1. PICK s \in Conns \cup {NoConn} :
          /\ Reconnect(s) /\ sent' = sent
          /\ \/ php' = [php EXCEPT !.socket = s]
             \/ php' = [php EXCEPT !.at = "idle", !.socket = s]
             \/ php' = [php EXCEPT !.at = "idle", !.got = <<>>, !.socket = s]
    BY <1>5
  <2>2. php'.socket = s /\ php'.tid = php.tid
    BY <1>1, <2>1 DEF Resource
  <2> QED
    BY <1>2, <2>1, <2>2 DEF New
<1>6. CASE \E s \in Conns \cup {NoConn} :
             /\ Reconnect(s) /\ sent' = sent + 1 /\ php' = Sent(s)
  <2>1. PICK s \in Conns \cup {NoConn} : Reconnect(s) /\ sent' = sent + 1 /\ php' = Sent(s)
    BY <1>6
  <2> QED
    BY <1>2, <2>1, SentPhp DEF New
<1>7. CASE QuerySend
  <2> DEFINE s == php.socket
  <2>1. s \in Conns \cup {NoConn} /\ sent' = sent + 1
    BY <1>1, <1>7 DEF QuerySend, Resource
  <2>2. php' = Sent(s) \/ php' = [Sent(s) EXCEPT !.at = "resend", !.kind = php.kind, !.size = php.size]
    BY <1>7 DEF QuerySend
  <2>3. Sent(s) \in Resource /\ Sent(s).socket = s /\ Sent(s).tid = NextTid
    BY <2>1, SentPhp
  <2>4. php'.socket = s /\ php'.tid = NextTid
    BY <2>2, <2>3 DEF Resource
  <2> QED
    BY <2>1, <2>4
<1>8. CASE /\ sent' = sent
           /\ \/ \E kind, size, wait : \E at :
                   php' = [php EXCEPT !.kind = kind, !.size = size, !.wait = wait, !.got = <<>>, !.at = at]
              \/ php' = php
              \/ \E at : php' = [php EXCEPT !.at = at]
              \/ \E at : php' = [php EXCEPT !.at = at, !.got = <<>>]
              \/ \E got : php' = [php EXCEPT !.got = got]
  <2>1. php'.socket = php.socket /\ php'.tid = php.tid
    BY <1>1, <1>8 DEF Resource
  <2> QED
    BY <1>8, <2>1
<1>9. CASE TopyReconnect \/ ReadEnd
  BY <1>5, <1>9 DEF TopyReconnect, ReadEnd
<1>10. CASE QuerySendSafe
  <2>1. PICK s \in Conns \cup {NoConn} :
          /\ Reconnect(s)
          /\ IF s = NoConn
             THEN php' = [php EXCEPT !.at = "idle", !.socket = NoConn] /\ sent' = sent
             ELSE php' = Sent(s) /\ sent' = sent + 1
    BY <1>10 DEF QuerySendSafe
  <2>2. CASE s = NoConn
    BY <1>5, <2>1, <2>2
  <2>3. CASE s # NoConn
    BY <1>6, <2>1, <2>3
  <2> QED
    BY <2>2, <2>3
<1>11. CASE ReadResult
  <2>1. \/ \E got : php' = [php EXCEPT !.got = got]
        \/ php' = [php EXCEPT !.at = "idle", !.got = <<>>]
        \/ \E r \in Conns \cup {NoConn} :
             Reconnect(r) /\ php' = [php EXCEPT !.at = "idle", !.got = <<>>, !.socket = r]
    BY <1>11 DEF ReadResult
  <2>2. sent' = sent
    BY <1>11 DEF ReadResult
  <2> QED
    BY <1>5, <1>8, <2>1, <2>2
<1>12. CASE ConnectionClear \/ TopyQueryRead \/ ReadError
  BY <1>8, <1>12 DEF ConnectionClear, TopyQueryRead, ReadError
<1>13. ASSUME NEW kind \in bounds.kinds, NEW size \in bounds.sizes, NEW wait \in bounds.waits,
              TopyQuery(kind, size, wait)
       PROVE  php'.socket = php.socket /\ php'.tid = php.tid /\ sent' = sent
  BY <1>1, <1>13 DEF TopyQuery, Resource
<1> QED
  BY <1>3, <1>4, <1>7, <1>9, <1>10, <1>11, <1>12, <1>13 DEF PhpStep

\* What PHP has read of an answer comes from its connection.
LEMMA PhpGot ==
  ASSUME IInv, PhpStep, NEW i \in DOMAIN php'.got
  PROVE  \/ \E j \in DOMAIN php.got : php'.got[i] = php.got[j]
         \/ /\ php.socket \in Conns
            /\ \E j \in DOMAIN outbox[php.socket] : php'.got[i] = outbox[php.socket][j]
<1> USE DEF IInv
<1>1. php \in Resource /\ php.got \in Seq(Piece)
  BY DEF Typed, Resource
<1>2. CASE php'.got = php.got \/ php'.got = <<>>
  BY <1>2
<1>3. CASE ReadResult
  <2>1. php.socket \in Conns
    BY <1>3 DEF ReadResult, Shape, PhpShape, Typed, Resource
  <2>2. PICK n \in 1 .. Len(outbox[php.socket]) :
          \/ php' = [php EXCEPT !.got = php.got \o SubSeq(outbox[php.socket], 1, n)]
          \/ php' = [php EXCEPT !.at = "idle", !.got = <<>>]
          \/ \E r : php' = [php EXCEPT !.at = "idle", !.got = <<>>, !.socket = r]
    BY <1>3 DEF ReadResult
  <2>3. php'.got = <<>> \/ php'.got = php.got \o SubSeq(outbox[php.socket], 1, n)
    BY <1>1, <2>2 DEF Resource
  <2>4. outbox[php.socket] \in Seq(Piece)
    BY <2>1 DEF Typed
  <2>5. CASE php'.got = php.got \o SubSeq(outbox[php.socket], 1, n)
    <3> DEFINE s == outbox[php.socket]
               t == php.got
    <3>1. s \in Seq(Piece) /\ t \in Seq(Piece) /\ n \in 1 .. Len(s)
      BY <1>1, <2>4
    <3>2. i \in DOMAIN (t \o SubSeq(s, 1, n)) /\ php'.got[i] = (t \o SubSeq(s, 1, n))[i]
      BY <2>5
    <3> HIDE DEF s, t
    <3>3. (\E j \in DOMAIN t : php'.got[i] = t[j]) \/ (\E j \in DOMAIN s : php'.got[i] = s[j])
      BY <3>1, <3>2, Joint
    <3> QED
      BY <2>1, <3>3 DEF s, t
  <2> QED
    BY <1>2, <2>3, <2>5
<1>4. CASE TopyConnect \/ ConnectionFree
  <2>1. php'.got = php.got \/ php'.got = <<>>
    BY <1>4 DEF TopyConnect, ConnectionFree, Fresh
  <2> QED
    BY <1>2, <2>1
<1>5. CASE TopyReconnect \/ ConnectionClear \/ TopyQueryRead \/ ReadEnd \/ ReadError
  <2>1. php'.got = php.got \/ php'.got = <<>>
    BY <1>1, <1>5 DEF TopyReconnect, ConnectionClear, TopyQueryRead, ReadEnd, ReadError, Resource
  <2> QED
    BY <1>2, <2>1
<1>6. CASE QuerySend
  <2>1. php.socket \in Conns \cup {NoConn}
    BY <1>1 DEF Resource
  <2>2. \/ php' = Sent(php.socket)
        \/ php' = [Sent(php.socket) EXCEPT !.at = "resend", !.kind = php.kind, !.size = php.size]
    BY <1>6 DEF QuerySend
  <2>3. Sent(php.socket) \in Resource /\ Sent(php.socket).got = php.got
    BY <2>1, SentPhp
  <2>4. php'.got = php.got
    BY <2>2, <2>3 DEF Resource
  <2> QED
    BY <1>2, <2>4
<1>7. CASE QuerySendSafe
  <2>1. PICK s \in Conns \cup {NoConn} :
          php' = [php EXCEPT !.at = "idle", !.socket = NoConn] \/ php' = Sent(s)
    BY <1>7 DEF QuerySendSafe
  <2>2. CASE php' = Sent(s)
    <3>1. php'.got = php.got
      BY <2>2, SentPhp
    <3> QED
      BY <1>2, <3>1
  <2>3. CASE php' = [php EXCEPT !.at = "idle", !.socket = NoConn]
    <3>1. php'.got = php.got
      BY <1>1, <2>3 DEF Resource
    <3> QED
      BY <1>2, <3>1
  <2> QED
    BY <2>1, <2>2, <2>3
<1>8. ASSUME NEW kind \in bounds.kinds, NEW size \in bounds.sizes, NEW wait \in bounds.waits,
             TopyQuery(kind, size, wait)
      PROVE  php'.got = <<>>
  BY <1>1, <1>8 DEF TopyQuery, Resource
<1> QED
  BY <1>2, <1>3, <1>4, <1>5, <1>6, <1>7, <1>8 DEF PhpStep

\* The answer PHP returns is that of the last command, as far as it can tell.
LEMMA PhpResult ==
  ASSUME IInv, PhpStep
  PROVE  \/ result' = result
         \/ /\ result'.query = sent /\ sent' = sent
            /\ LET answer == Head(result'.pieces) IN
               /\ answer \in Piece
               /\ answer.tid = NoTid \/ answer.tid = php.tid
               /\ \/ \E j \in DOMAIN php.got : answer = php.got[j]
                  \/ /\ php.socket \in Conns
                     /\ \E j \in DOMAIN outbox[php.socket] : answer = outbox[php.socket][j]
<1> USE DEF IInv
<1>1. php \in Resource /\ php.got \in Seq(Piece)
  BY DEF Typed, Resource
<1>2. CASE ReadResult
  <2>1. php.socket \in Conns /\ php.query = sent
    BY <1>2 DEF ReadResult, Shape, PhpShape, Typed, Resource
  <2>2. PICK n \in 1 .. Len(outbox[php.socket]) :
          LET got == php.got \o SubSeq(outbox[php.socket], 1, n) IN
          \/ result' = result
          \/ /\ Head(got).first => ~WrongTid(Head(got))
             /\ result' = IF Head(got).first THEN [query |-> php.query, pieces |-> got] ELSE result
    BY <1>2 DEF ReadResult
  <2> DEFINE got == php.got \o SubSeq(outbox[php.socket], 1, n)
  <2>3. /\ got \in Seq(Piece) /\ got # <<>> /\ 1 \in DOMAIN got
        /\ \A i \in DOMAIN got : \/ \E j \in DOMAIN php.got : got[i] = php.got[j]
                                 \/ \E j \in DOMAIN outbox[php.socket] : got[i] = outbox[php.socket][j]
    <3> DEFINE s == outbox[php.socket]
               t == php.got
    <3>1. s \in Seq(Piece) /\ t \in Seq(Piece) /\ n \in 1 .. Len(s)
      BY <1>1, <2>1 DEF Typed
    <3>2. got = t \o SubSeq(s, 1, n)
      OBVIOUS
    <3> HIDE DEF s, t, got
    <3>3. /\ got \in Seq(Piece) /\ got # <<>> /\ 1 \in DOMAIN got
          /\ \A i \in DOMAIN got : \/ \E j \in DOMAIN t : got[i] = t[j]
                                   \/ \E j \in DOMAIN s : got[i] = s[j]
      <4>1. got \in Seq(Piece) /\ got # <<>> /\ 1 \in DOMAIN got
        BY <3>1, <3>2, Joint
      <4>2. ASSUME NEW i \in DOMAIN got
            PROVE  (\E j \in DOMAIN t : got[i] = t[j]) \/ (\E j \in DOMAIN s : got[i] = s[j])
        <5>1. i \in DOMAIN (t \o SubSeq(s, 1, n)) /\ got[i] = (t \o SubSeq(s, 1, n))[i]
          BY <3>2
        <5> QED
          BY <3>1, <5>1, Joint
      <4> QED
        BY <4>1, <4>2
    <3> QED
      BY <3>3 DEF s, t
  <2>4. \/ result' = result
        \/ /\ ~WrongTid(Head(got))
           /\ result' = [query |-> php.query, pieces |-> got]
    BY <2>2
  <2> HIDE DEF got
  <2>5. Head(got) = got[1] /\ Head(got) \in Piece
    BY <2>3, HeadTailProperties
  <2>6. sent' = sent
    BY <1>2 DEF ReadResult
  <2> QED
    BY <2>1, <2>3, <2>4, <2>5, <2>6 DEF WrongTid
<1>3. CASE ~ReadResult
  BY <1>3 DEF PhpStep, TopyConnect, TopyReconnect, ConnectionFree, TopyQuery, ConnectionClear,
              QuerySend, QuerySendSafe, TopyQueryRead, ReadEnd, ReadError
<1> QED
  BY <1>2, <1>3

\* A connection that is not made has nothing.
LEMMA Blank ==
  ASSUME IInv, NEW c \in Conns, c \notin backlog, ~Made(c)
  PROVE  inbox[c] = <<>> /\ outbox[c] = <<>> /\ \A a \in Actors : jobs[a].conn # c
<1>1. Using(c) = {}
  BY MadeBefore
<1> QED
  BY <1>1 DEF IInv, Shape, ConnShape, Using

TInv == TidsFollow /\ WrongAnswerHasNoTid

\* An answer that is taken for that of the last command has no transaction id, or
\* one that has come round.
LEMMA AnswerTold ==
  ASSUME IInv, NEW base \in 0 .. sent, Follows(base), NEW answer \in Piece,
         answer.tid = NoTid \/ answer.tid = php.tid,
         answer.tid # NoTid => Numbered(answer.query, answer.tid, base)
  PROVE  \/ answer.tid = NoTid
         \/ answer.query <= sent /\ (sent - answer.query) % TidLimit = 0
<1> SUFFICES ASSUME answer.tid # NoTid
             PROVE  answer.query <= sent /\ (sent - answer.query) % TidLimit = 0
  OBVIOUS
<1>1. TidLimit \in Nat \ {0} /\ sent \in Nat /\ base \in Nat
  BY Bounded DEF IInv
<1>2. answer.query \in base .. sent
  BY DEF Numbered
<1>3. (sent - base) % TidLimit = (answer.query - base) % TidLimit
  BY DEF Numbered, Follows
<1>4. sent - base \in Nat /\ answer.query - base \in Nat /\ answer.query - base <= sent - base
  BY <1>1, <1>2
<1>5. ((sent - base) - (answer.query - base)) % TidLimit = 0
  BY <1>1, <1>3, <1>4, SameRemainder, Zenon
<1>6. (sent - base) - (answer.query - base) = sent - answer.query
  BY <1>1, <1>2
<1>7. (sent - answer.query) % TidLimit = 0
  BY <1>5, <1>6, Zenon
<1> QED
  BY <1>1, <1>2, <1>7

\* The transaction ids, in the steps of PHP: what it accepts.
LEMMA PhpTold ==
  ASSUME IInv, TInv, PhpStep
  PROVE  WrongAnswerHasNoTid'
<1>1. PICK base \in 0 .. sent : Follows(base)
  BY DEF TInv, TidsFollow
<1>2. CASE result' = result
  BY <1>2 DEF TInv, WrongAnswerHasNoTid
<1>3. CASE result' # result
  <2> DEFINE answer == Head(result'.pieces)
  <2>1. /\ result'.query = sent /\ answer \in Piece
        /\ answer.tid = NoTid \/ answer.tid = php.tid
        /\ \/ \E j \in DOMAIN php.got : answer = php.got[j]
           \/ /\ php.socket \in Conns
              /\ \E j \in DOMAIN outbox[php.socket] : answer = outbox[php.socket][j]
    BY <1>3, PhpResult
  <2> HIDE DEF answer
  <2>2. answer.tid # NoTid => Numbered(answer.query, answer.tid, base)
    <3> SUFFICES ASSUME answer.tid # NoTid PROVE Numbered(answer.query, answer.tid, base)
      OBVIOUS
    <3>1. CASE \E j \in DOMAIN php.got : answer = php.got[j]
      BY <1>1, <3>1 DEF Follows
    <3>2. CASE php.socket \in Conns /\ \E j \in DOMAIN outbox[php.socket] : answer = outbox[php.socket][j]
      <4>1. ConnFollows(php.socket, base)
        BY <1>1, <3>2, Bounded DEF IInv, Follows
      <4> QED
        BY <3>2, <4>1 DEF ConnFollows
    <3> QED
      BY <2>1, <3>1, <3>2
  <2>3. \/ answer.tid = NoTid
        \/ answer.query <= sent /\ (sent - answer.query) % TidLimit = 0
    BY <1>1, <2>1, <2>2, AnswerTold
  <2>4. \/ answer.tid = NoTid
        \/ answer.query <= result'.query /\ (result'.query - answer.query) % TidLimit = 0
    BY <2>1, <2>3, Zenon
  <2> QED
    BY <2>4 DEF WrongAnswerHasNoTid, answer
<1> QED
  BY <1>2, <1>3

\* ... what may come to its connection,
LEMMA PhpConnFollows ==
  ASSUME IInv, PhpStep, NEW base \in 0 .. sent, Follows(base), NEW s \in Conns, s = php'.socket,
         sent' = sent \/ (sent' = sent + 1 /\ php'.tid = NextTid)
  PROVE  ConnFollows(s, base)'
<1> USE DEF IInv
<1>1. /\ jobs' = jobs /\ sent' >= sent /\ sent' \in Nat /\ sent \in Nat /\ base \in Nat
      /\ NoConn \notin Conns
  BY PhpFrame, Bounded DEF serverVars
<1>2. s = php.socket \/ (s \in Conns /\ s \notin backlog /\ ~Made(s))
  BY <1>1, PhpSocket
<1>3. /\ \A i \in DOMAIN inbox[s] : Numbered(inbox[s][i].id, inbox[s][i].tid, base)
      /\ \A i \in DOMAIN outbox[s] :
           outbox[s][i].tid # NoTid => Numbered(outbox[s][i].query, outbox[s][i].tid, base)
      /\ \A a \in Actors : jobs[a].conn = s /\ jobs[a].tid # NoTid =>
           Numbered(jobs[a].query, jobs[a].tid, base)
  <2>1. CASE s = php.socket
    BY <1>1, <2>1 DEF Follows, ConnFollows
  <2>2. CASE s \in Conns /\ s \notin backlog /\ ~Made(s)
    BY <2>2, Blank
  <2> QED
    BY <1>2, <2>1, <2>2
<1>4. \/ inbox'[s] = inbox[s]
      \/ /\ Command(s) \in Query /\ inbox'[s] = Append(inbox[s], Command(s)) /\ sent' = sent + 1
         /\ php'.tid = NextTid
  BY PhpInbox DEF Typed
<1>5. ASSUME NEW i \in DOMAIN inbox'[s]
      PROVE  Numbered(inbox[s][i].id, inbox[s][i].tid, base)'
  <2>1. CASE i \in DOMAIN inbox[s] /\ inbox'[s][i] = inbox[s][i]
    <3>1. Numbered(inbox[s][i].id, inbox[s][i].tid, base)
      BY <1>3, <2>1
    <3> QED
      BY <1>1, <2>1, <3>1, NumbersStay DEF Numbered
  <2>2. CASE inbox'[s][i] = Command(s) /\ sent' = sent + 1
    <3>1. inbox'[s][i].id = sent + 1 /\ inbox'[s][i].tid = NextTid
      BY <2>2, SentPhp, ZenonT(30)
    <3>2. NextTid = ((sent + 1) - base) % TidLimit
      BY Numbering
    <3>3. inbox'[s][i].tid = (inbox'[s][i].id - base) % TidLimit
      <4>1. (inbox'[s][i].id - base) % TidLimit = ((sent + 1) - base) % TidLimit
        BY <3>1, Zenon
      <4> QED
        BY <3>1, <3>2, <4>1, Zenon
    <3>4. inbox'[s][i].id \in base .. sent'
      BY <1>1, <2>2, <3>1
    <3> QED
      BY <3>3, <3>4 DEF Numbered
  <2>3. \/ i \in DOMAIN inbox[s] /\ inbox'[s][i] = inbox[s][i]
        \/ inbox'[s][i] = Command(s) /\ sent' = sent + 1
    <3>1. CASE inbox'[s] = Append(inbox[s], Command(s)) /\ Command(s) \in Query /\ sent' = sent + 1
      <4>1. inbox[s] \in Seq(Query)
        BY DEF Typed
      <4>2. /\ DOMAIN inbox[s] = 1 .. Len(inbox[s]) /\ DOMAIN inbox'[s] = 1 .. Len(inbox[s]) + 1
            /\ Len(inbox[s]) \in Nat /\ inbox'[s][Len(inbox[s]) + 1] = Command(s)
            /\ \A j \in DOMAIN inbox[s] : inbox'[s][j] = inbox[s][j]
        BY <3>1, <4>1, Appended
      <4> QED
        BY <3>1, <4>2
    <3> QED
      BY <1>4, <3>1
  <2> QED
    BY <2>1, <2>2, <2>3
<1>6. ASSUME NEW i \in DOMAIN outbox'[s], outbox'[s][i].tid # NoTid
      PROVE  Numbered(outbox[s][i].query, outbox[s][i].tid, base)'
  <2>1. PICK n \in Nat : n + i \in DOMAIN outbox[s] /\ outbox'[s][i] = outbox[s][n + i]
    BY PhpReads
  <2>2. Numbered(outbox[s][n + i].query, outbox[s][n + i].tid, base)
    BY <1>3, <1>6, <2>1
  <2> QED
    BY <1>1, <2>1, <2>2 DEF Numbered
<1>7. ASSUME NEW a \in Actors, jobs[a].conn = s, jobs[a].tid # NoTid
      PROVE  Numbered(jobs[a].query, jobs[a].tid, base)'
  BY <1>1, <1>3, <1>7 DEF Numbered
<1> QED
  BY <1>1, <1>5, <1>6, <1>7 DEF ConnFollows

\* ... and how a new resource starts.
LEMMA PhpFollows ==
  ASSUME IInv, TInv, PhpStep
  PROVE  TidsFollow'
<1> USE DEF IInv
<1>1. PICK base \in 0 .. sent : Follows(base)
  BY DEF TInv, TidsFollow
<1>2. /\ sent \in Nat /\ sent' \in Nat /\ sent' >= sent /\ TidLimit \in Nat \ {0}
      /\ NoConn \notin Conns /\ jobs' = jobs /\ php' \in Resource
  BY PhpFrame, PhpTypes, Bounded DEF serverVars, Typed
<1>3. CASE \/ sent' = sent /\ php'.tid = php.tid
           \/ sent' = sent + 1 /\ php'.tid = NextTid
  <2>1. php'.tid = (sent' - base) % TidLimit
    <3>1. CASE sent' = sent /\ php'.tid = php.tid
      BY <1>1, <3>1 DEF Follows
    <3>2. CASE sent' = sent + 1 /\ php'.tid = NextTid
      <4>1. NextTid = ((sent + 1) - base) % TidLimit
        BY <1>1, Numbering
      <4> QED
        <5>1. (sent' - base) % TidLimit = ((sent + 1) - base) % TidLimit
          BY <3>2, Zenon
        <5> QED
          BY <3>2, <4>1, <5>1, Zenon
    <3> QED
      BY <1>3, <3>1, <3>2
  <2>2. ASSUME NEW i \in DOMAIN php'.got, php'.got[i].tid # NoTid
        PROVE  Numbered(php.got[i].query, php.got[i].tid, base)'
    <3>1. Numbered(php'.got[i].query, php'.got[i].tid, base)
      BY <1>1, <1>2, <2>2, PhpGot DEF Follows, ConnFollows
    <3> QED
      BY <1>2, <3>1 DEF Numbered
  <2>3. ASSUME NEW s \in Conns, s = php'.socket
        PROVE  ConnFollows(s, base)'
    BY <1>1, <1>3, <2>3, PhpConnFollows
  <2>4. php'.socket # NoConn => ConnFollows(php.socket, base)'
    BY <1>2, <2>3 DEF Resource
  <2>5. base \in 0 .. sent'
    BY <1>2
  <2>6. Follows(base)'
    BY <2>1, <2>2, <2>4 DEF Follows
  <2> QED
    BY <2>5, <2>6 DEF TidsFollow
<1>4. CASE /\ sent' = sent /\ php'.tid = 0 /\ php'.got = <<>> /\ inbox' = inbox /\ outbox' = outbox
           /\ \/ php'.socket = NoConn
              \/ php'.socket \in Conns /\ php'.socket \notin backlog /\ ~Made(php'.socket)
  <2>1. 0 % TidLimit = 0 /\ sent - sent = 0 /\ sent \in 0 .. sent'
    BY <1>2, <1>4
  <2>2. ASSUME NEW n, n = sent PROVE Follows(n)'
    <3>1. php'.tid = (sent' - n) % TidLimit
      BY <1>2, <1>4, <2>1, <2>2
    <3>2. php'.socket # NoConn => ConnFollows(php.socket, n)'
      <4>1. ASSUME NEW s \in Conns, s = php'.socket PROVE ConnFollows(s, n)'
        <5>1. inbox'[s] = <<>> /\ outbox'[s] = <<>> /\ \A a \in Actors : jobs'[a].conn # s
          BY <1>2, <1>4, <4>1, Blank
        <5> QED
          BY <5>1 DEF ConnFollows
      <4> QED
        BY <1>4, <4>1
    <3> QED
      BY <1>4, <3>1, <3>2 DEF Follows
  <2> QED
    BY <2>1, <2>2 DEF TidsFollow
<1> QED
  BY <1>3, <1>4, PhpSocket

\* The transaction ids, in the steps of the loop.
LEMMA LoopTids ==
  ASSUME IInv, TInv, LoopStep, UNCHANGED phpVars
  PROVE  TInv'
<1> USE DEF IInv
<1>1. PICK base \in 0 .. sent : Follows(base)
  BY DEF TInv, TidsFollow
<1>2. /\ UNCHANGED <<php, sent, result>> /\ outbox' = outbox
      /\ \A a \in Actors \ {Loop} : jobs'[a] = jobs[a]
      /\ \A c \in Conns : inbox'[c] = inbox[c] \/ inbox'[c] = <<>>
      /\ \/ jobs'[Loop] = jobs[Loop]
         \/ jobs'[Loop].tid = NoTid
         \/ \E c \in Conns : /\ 1 \in DOMAIN inbox[c] /\ jobs'[Loop].conn = c
                             /\ jobs'[Loop].query = inbox[c][1].id /\ jobs'[Loop].tid = inbox[c][1].tid
  BY LoopReads DEF phpVars
<1>3. ASSUME NEW s \in Conns, ConnFollows(s, base) PROVE ConnFollows(s, base)'
  <2>1. \A i \in DOMAIN inbox'[s] : Numbered(inbox'[s][i].id, inbox'[s][i].tid, base)
    BY <1>2, <1>3 DEF ConnFollows
  <2>2. \A a \in Actors : jobs'[a].conn = s /\ jobs'[a].tid # NoTid =>
          Numbered(jobs'[a].query, jobs'[a].tid, base)
    BY <1>2, <1>3 DEF ConnFollows
  <2> QED
    BY <1>2, <1>3, <2>1, <2>2 DEF ConnFollows, Numbered
<1>4. Follows(base)'
  <2>1. php.socket # NoConn => php.socket \in Conns
    BY DEF Typed, Resource
  <2>2. php.socket # NoConn => ConnFollows(php.socket, base)'
    <3>1. ASSUME NEW s \in Conns, s = php'.socket PROVE ConnFollows(s, base)'
      BY <1>1, <1>2, <1>3, <2>1, <3>1, Bounded DEF Follows
    <3> QED
      BY <1>2, <2>1, <3>1
  <2> QED
    BY <1>1, <1>2, <2>2 DEF Follows, Numbered
<1> QED
  BY <1>2, <1>4 DEF TInv, TidsFollow, WrongAnswerHasNoTid

\* An answer with a transaction id comes to the connection of its command.
LEMMA ToldAtHome ==
  ASSUME IInv, NEW a \in Actors, jobs[a].at = "write", jobs[a].tid # NoTid, NEW d \in Conns,
         clients[d].opened, clients[d].fd = clients[jobs[a].conn].fd
  PROVE  d = jobs[a].conn
<1>1. a = Loop /\ a \in Actors /\ jobs[a].query > 0
  BY DEF IInv, Shape, ActorShape, Actors
<1>2. jobs[a].conn \in Conns /\ clients[jobs[a].conn].opened
  BY <1>1 DEF IInv, Shape, ActorShape
<1> QED
  BY <1>2 DEF IInv, Shape, ConnShape

\* ... and in the steps of an answer and of a reference.
LEMMA ActorTids ==
  ASSUME IInv, TInv, NEW a \in Actors, ActorStep(a), UNCHANGED phpVars
  PROVE  TInv'
<1> USE DEF IInv
<1>1. PICK base \in 0 .. sent : Follows(base)
  BY DEF TInv, TidsFollow
<1>2. UNCHANGED <<inbox, php, sent, result>>
  BY ActorFrame
<1>3. \A b \in Actors : \/ jobs'[b].tid = NoTid
                        \/ /\ jobs'[b].tid = jobs[b].tid /\ jobs'[b].conn = jobs[b].conn
                           /\ jobs'[b].query = jobs[b].query
  BY ActorJobs DEF Dropped
<1>4. ASSUME NEW s \in Conns, ConnFollows(s, base) PROVE ConnFollows(s, base)'
  <2>1. \A b \in Actors : jobs'[b].conn = s /\ jobs'[b].tid # NoTid =>
          Numbered(jobs'[b].query, jobs'[b].tid, base)
    BY <1>3, <1>4 DEF ConnFollows
  <2>2. ASSUME NEW i \in DOMAIN outbox'[s], outbox'[s][i].tid # NoTid
        PROVE  Numbered(outbox'[s][i].query, outbox'[s][i].tid, base)
    <3>1. CASE outbox'[s] = outbox[s]
      BY <1>4, <2>2, <3>1 DEF ConnFollows
    <3>2. CASE /\ jobs[a].at = "write" /\ NextPiece(jobs[a]) \in Piece
               /\ clients[s].opened /\ clients[s].fd = clients[jobs[a].conn].fd
               /\ outbox'[s] = Append(outbox[s], NextPiece(jobs[a]))
      <4>1. outbox[s] \in Seq(Piece)
        BY DEF Typed
      <4>2. /\ DOMAIN outbox[s] = 1 .. Len(outbox[s]) /\ DOMAIN outbox'[s] = 1 .. Len(outbox[s]) + 1
            /\ Len(outbox[s]) \in Nat /\ outbox'[s][Len(outbox[s]) + 1] = NextPiece(jobs[a])
            /\ \A j \in DOMAIN outbox[s] : outbox'[s][j] = outbox[s][j]
        BY <3>2, <4>1, Appended
      <4>3. CASE i \in DOMAIN outbox[s]
        BY <1>4, <2>2, <4>2, <4>3 DEF ConnFollows
      <4>4. CASE outbox'[s][i] = NextPiece(jobs[a])
        <5>1. outbox'[s][i].tid = jobs[a].tid /\ outbox'[s][i].query = jobs[a].query
          BY <4>4 DEF NextPiece
        <5>2. s = jobs[a].conn
          BY <2>2, <3>2, <5>1, ToldAtHome
        <5> QED
          BY <1>4, <2>2, <5>1, <5>2 DEF ConnFollows
      <4> QED
        BY <4>2, <4>3, <4>4
    <3>3. \/ outbox'[s] = outbox[s]
          \/ /\ jobs[a].at = "write" /\ NextPiece(jobs[a]) \in Piece
             /\ clients[s].opened /\ clients[s].fd = clients[jobs[a].conn].fd
             /\ outbox'[s] = Append(outbox[s], NextPiece(jobs[a]))
      BY ActorOutbox DEF Typed
    <3> QED
      BY <3>1, <3>2, <3>3
  <2> QED
    BY <1>2, <1>4, <2>1, <2>2 DEF ConnFollows, Numbered
<1>5. Follows(base)'
  <2>1. php.socket # NoConn => php.socket \in Conns
    BY DEF Typed, Resource
  <2>2. php.socket # NoConn => ConnFollows(php.socket, base)'
    <3>1. ASSUME NEW s \in Conns, s = php'.socket PROVE ConnFollows(s, base)'
      BY <1>1, <1>2, <1>4, <2>1, <3>1, Bounded DEF Follows
    <3> QED
      BY <1>2, <2>1, <3>1
  <2> QED
    BY <1>1, <1>2, <2>2 DEF Follows, Numbered
<1> QED
  BY <1>2, <1>5 DEF TInv, TidsFollow, WrongAnswerHasNoTid

\* At the start nothing was sent.
LEMMA TInvInit ==
  ASSUME Init
  PROVE  TInv
<1>1. php.tid = 0 /\ php.socket = NoConn /\ php.got = <<>> /\ sent = 0 /\ result = Nothing
  BY DEF Init, Fresh
<1>2. (sent - 0) % TidLimit = 0
  <2>1. TidLimit \in Nat \ {0} /\ 0 \in Nat /\ 0 \in 0 .. TidLimit - 1 /\ 0 - 0 = TidLimit * 0
    BY ClientsAssumption
  <2>2. 0 % TidLimit = 0
    BY <2>1, Remainder
  <2> QED
    BY <1>1, <2>2
<1>3. Follows(0)
  BY <1>1, <1>2 DEF Follows
<1> QED
  BY <1>1, <1>3 DEF TInv, TidsFollow, WrongAnswerHasNoTid

\* WrongAnswerHasNoTid holds in every state: of the answers that have a
\* transaction id, PHP takes for that of its last command only one whose command
\* was sent a whole number of turns of the ids before (php_topy.c:283-293).
THEOREM AnswersAreTold == Spec => []WrongAnswerHasNoTid
<1>1. Init => IInv /\ TInv
  BY IInvInit, TInvInit
<1>2. IInv /\ TInv /\ [Next]_vars => (IInv /\ TInv)'
  <2> SUFFICES ASSUME IInv, TInv, [Next]_vars PROVE TInv'
    BY IInvNext
  <2>1. CASE UNCHANGED vars
    BY <2>1 DEF vars, serverVars, phpVars, TInv, TidsFollow, Follows, ConnFollows, Numbered,
                WrongAnswerHasNoTid
  <2>2. CASE PhpStep
    BY <2>2, PhpTold, PhpFollows DEF TInv
  <2> QED
    BY <2>1, <2>2, LoopTids, ActorTids DEF Next, ServerStep
<1>3. TInv => WrongAnswerHasNoTid
  BY DEF TInv
<1> QED
  BY <1>1, <1>2, <1>3, PTL DEF Spec

=============================================================================
