------------------------------- MODULE Clients --------------------------------
(***************************************************************************)
(* The connections of the server: the objects of class Client (events.cc), *)
(* the answers of class ClientResult (result.cc) and the detached threads  *)
(* of class ClientThread (client_thread.cc, threads.cc) that keep a        *)
(* pointer to a Client and answer on it.                                   *)
(*                                                                         *)
(* The event loop and the threads are the actors.  A step is what an actor *)
(* does between two accesses to data it shares with the others: ref_count, *)
(* which no mutex protects, opened, and the file descriptor.  An answer    *)
(* goes out in pieces of BUFFER_SIZE bytes, each written on its own.       *)
(***************************************************************************)
EXTENDS Naturals, Sequences, FiniteSets, FiniteSetsExt, Functions

CONSTANTS
  Conns,         \* the TCP connections, in the order in which they are made
  NoConn,        \* no connection
  Threads,       \* the detached threads
  Loop,          \* the event loop
  TidLimit,      \* 65535 in php_topy.c
  Scenarios      \* bounds: what connections and threads there are, how many
                 \* commands are sent, what becomes of them, whether they are
                 \* waited for, of how many pieces their answers are, and how
                 \* many writes and connections fail

Actors == Threads \cup {Loop}
Fds    == 1 .. Cardinality(Conns)
NoFd   == 0
NoTid  == TidLimit      \* tid == -1
Kind   == {"now", "refused", "late", "mute", "quit"}

ASSUME ClientsAssumption ==
  /\ IsFiniteSet(Conns) /\ Conns = 1 .. Cardinality(Conns)
  /\ IsFiniteSet(Threads)
  /\ NoConn \notin Conns
  /\ Loop \notin Threads
  /\ \A b \in Scenarios :
       /\ b.conns \in 1 .. Cardinality(Conns)
       /\ b.threads \subseteq Threads
       /\ b.kinds \subseteq Kind
       /\ b.waits \subseteq BOOLEAN
       /\ b.sizes \subseteq Nat \ {0}
       /\ {b.queries, b.faults} \subseteq Nat
  /\ TidLimit \in Nat \ {0}

VARIABLES
  bounds,        \* the scenario
  backlog,       \* the connections that accept() has yet to return
  hungup,        \* the connections closed at the other end
  inbox,         \* what the other end has written, for each connection
  outbox,        \* what the server has written, for each connection
  files,         \* the connection of each file descriptor of the server
  clients,       \* the Client made for each connection
  jobs,          \* what each actor is doing
  faults,        \* how many writes and connections may still fail
  tangled,       \* history: connections whose ref_count two actors changed at once
  misused        \* history: connections whose Client was used once freed

serverVars == <<bounds, files, clients, jobs, tangled, misused>>

-------------------------------------------------------------------------------
\* A command, as the other end of its connection has written it.
Query  == [id : Nat, conn : Conns, tid : 0 .. TidLimit, kind : Kind, size : Nat]

\* A piece of an answer: the header is in the first, the final "\r\n" in the last.
Piece  == [query : Nat, conn : Conns, tid : 0 .. TidLimit, first : BOOLEAN, last : BOOLEAN]

Client == [fd : Fds \cup {NoFd}, opened : BOOLEAN, ref_count : Nat, freed : BOOLEAN]

\* An actor's position, the connection it is at, the command it answers, the
\* transaction id of the ClientResult, how many pieces are out, and the value
\* of ref_count it has read.
Stops  == {"idle", "ref", "work", "test", "write", "unref", "count", "last"}
Job    == [at : Stops, conn : Conns \cup {NoConn}, query : Nat, tid : 0 .. TidLimit,
           size : Nat, out : Nat, seen : Nat]

Idle   == [at |-> "idle", conn |-> NoConn, query |-> 0, tid |-> NoTid,
           size |-> 0, out |-> 0, seen |-> 0]

NewClient(f) == [fd |-> f, opened |-> TRUE, ref_count |-> 1, freed |-> FALSE]
Unmade       == [fd |-> NoFd, opened |-> FALSE, ref_count |-> 0, freed |-> FALSE]

Made(c)      == clients[c].fd # NoFd
Accepted(c)  == c \in Range(files)
Connected(c) == c \in backlog \/ Accepted(c)      \* the server's end is open
Counting(c)  == {a \in Actors : jobs[a].conn = c /\ jobs[a].at \in {"ref", "count", "last"}}

ClientsInit ==
  /\ bounds \in Scenarios
  /\ faults = bounds.faults
  /\ backlog = {} /\ hungup = {}
  /\ inbox   = [c \in Conns |-> <<>>]
  /\ outbox  = [c \in Conns |-> <<>>]
  /\ files   = [f \in Fds |-> NoConn]
  /\ clients = [c \in Conns |-> Unmade]
  /\ jobs    = [a \in Actors |-> Idle]
  /\ tangled = {} /\ misused = {}

\* An access to the Client of c by actor a; one to ref_count overlaps the
\* others' under way.
Use(c)       == misused' = IF clients[c].freed THEN misused \cup {c} ELSE misused
Overlap(a, c) == tangled' = IF Counting(c) \ {a} # {} THEN tangled \cup {c} ELSE tangled

Goto(a, stop) == jobs' = [jobs EXCEPT ![a].at = stop]

-------------------------------------------------------------------------------
\* Server::connect: accept() takes the lowest descriptor that is free, and the
\* constructor of Client opens it and takes the first reference.
Connect(c) ==
  /\ jobs[Loop].at = "idle"
  /\ c \in backlog /\ c = Min(backlog)
  /\ LET f == Min({g \in Fds : files[g] = NoConn}) IN
       /\ files' = [files EXCEPT ![f] = c]
       /\ clients' = [clients EXCEPT ![c] = NewClient(f)]
  /\ backlog' = backlog \ {c}
  /\ UNCHANGED <<bounds, hungup, inbox, outbox, jobs, faults, tangled, misused>>

\* What was written by the time of the read is parsed as one command; with more
\* than one, the words that follow the first are not expected.
Parsed(queries) ==
  IF Len(queries) = 1 THEN Head(queries) ELSE [Head(queries) EXCEPT !.kind = "now", !.size = 1]

\* The job of the loop on a command it answers itself, with the transaction id.
Answering(q) ==
  [Idle EXCEPT !.at = "test", !.conn = q.conn, !.query = q.id, !.tid = q.tid, !.size = q.size]

\* Mutant: the Client stays opened.
MutClosed(c) ==
  /\ UNCHANGED <<clients, tangled>>
  /\ files' = [files EXCEPT ![clients[c].fd] = NoConn]
  /\ jobs' = [jobs EXCEPT ![Loop] = [Idle EXCEPT !.at = "unref", !.conn = c]]

\* Client::close, up to the unref(): the descriptor may be reused from now on.
Closed(c) ==
  /\ clients' = [clients EXCEPT ![c].opened = FALSE]
  /\ files' = [files EXCEPT ![clients[c].fd] = NoConn]
  /\ jobs' = [jobs EXCEPT ![Loop] = [Idle EXCEPT !.at = "unref", !.conn = c]]
  /\ UNCHANGED tangled

\* client_read and ClientTopy::receive.  A command is answered at once (now);
\* or a detached thread answers it (late), whose constructor takes a reference;
\* or the parser deletes the thread it has made and answers with an error
\* (refused); or it is contests delete, which has no answer (mute); or quit.
Receive(c) ==
  /\ jobs[Loop].at = "idle"
  /\ clients[c].opened
  /\ inbox[c] # <<>>
  /\ inbox' = [inbox EXCEPT ![c] = <<>>]
  /\ Use(c)
  /\ LET q == Parsed(inbox[c]) IN
       \/ /\ q.kind = "now"
          /\ jobs' = [jobs EXCEPT ![Loop] = Answering(q)]
          /\ UNCHANGED <<files, clients, tangled>>
       \/ /\ q.kind \in {"late", "refused"}
          /\ q.kind = "late" => \E t \in bounds.threads : jobs[t].at = "idle"
          /\ jobs' = [jobs EXCEPT ![Loop] =
                        [Answering(q) EXCEPT !.at = "ref", !.seen = clients[c].ref_count,
                                             !.size = IF q.kind = "late" THEN q.size ELSE 0]]
          /\ Overlap(Loop, c)
          /\ UNCHANGED <<files, clients>>
       \/ /\ q.kind = "mute"
          /\ UNCHANGED <<files, clients, jobs, tangled>>
       \/ /\ q.kind = "quit"
          /\ Closed(c)
  /\ UNCHANGED <<bounds, backlog, hungup, outbox, faults>>

\* client_error, at the end of the stream.
Error(c) ==
  /\ jobs[Loop].at = "idle"
  /\ c \in hungup /\ clients[c].opened /\ inbox[c] = <<>>
  /\ Use(c)
  /\ Closed(c)
  /\ UNCHANGED <<bounds, backlog, hungup, inbox, outbox, faults>>

-------------------------------------------------------------------------------
\* Where an actor goes once its answer is out, or given up: a thread is deleted,
\* the loop waits for the next event.
Answered(a) ==
  jobs' = [jobs EXCEPT ![a] =
             IF a = Loop THEN Idle ELSE [Idle EXCEPT !.at = "unref", !.conn = jobs[a].conn]]

\* Mutant: the thread takes no reference.
MutRef(t) ==
  LET job == jobs[Loop] IN
  /\ job.at = "ref"
  /\ Use(job.conn)
  /\ \/ /\ job.size > 0
        /\ t \in bounds.threads /\ jobs[t].at = "idle"
        /\ jobs' = [jobs EXCEPT ![Loop] = Idle,
                                ![t] = [job EXCEPT !.at = "work", !.tid = NoTid, !.seen = 0]]
     \/ /\ job.size = 0
        /\ Goto(Loop, "unref")
  /\ UNCHANGED <<bounds, backlog, hungup, inbox, outbox, files, clients, faults, tangled>>

\* ClientThread::ClientThread: ref_count++.  The thread then runs, with a
\* ClientResult of its own, that has no transaction id; or is deleted.
Ref(t) ==
  LET job == jobs[Loop] IN
  /\ job.at = "ref"
  /\ Use(job.conn)
  /\ clients' = [clients EXCEPT ![job.conn].ref_count = job.seen + 1]
  /\ \/ /\ job.size > 0
        /\ t \in bounds.threads /\ jobs[t].at = "idle"
        /\ jobs' = [jobs EXCEPT ![Loop] = Idle,
                                ![t] = [job EXCEPT !.at = "work", !.tid = NoTid, !.seen = 0]]
     \/ /\ job.size = 0
        /\ Goto(Loop, "unref")
  /\ UNCHANGED <<bounds, backlog, hungup, inbox, outbox, files, faults, tangled>>

\* The main() of a thread, up to the send().
Work(t) ==
  /\ jobs[t].at = "work"
  /\ Goto(t, "test")
  /\ UNCHANGED <<bounds, backlog, hungup, inbox, outbox, files, clients, faults, tangled, misused>>

\* Mutant: a write on a closed connection is tried again.
MutTest(a) ==
  /\ jobs[a].at = "test"
  /\ Use(jobs[a].conn)
  /\ IF clients[jobs[a].conn].opened THEN Goto(a, "write") ELSE UNCHANGED jobs
  /\ UNCHANGED <<bounds, backlog, hungup, inbox, outbox, files, clients, faults, tangled>>

\* Client::write: a closed connection gets nothing.
Test(a) ==
  /\ jobs[a].at = "test"
  /\ Use(jobs[a].conn)
  /\ IF clients[jobs[a].conn].opened THEN Goto(a, "write") ELSE Answered(a)
  /\ UNCHANGED <<bounds, backlog, hungup, inbox, outbox, files, clients, faults, tangled>>

NextPiece(job) ==
  [query |-> job.query, conn |-> job.conn, tid |-> job.tid,
   first |-> job.out = 0, last |-> job.out + 1 = job.size]

\* Mutant: opened is tested once, before the first piece.
MutWrite(a) ==
  LET job == jobs[a]
      d   == files[clients[job.conn].fd] IN
  /\ job.at = "write"
  /\ Use(job.conn)
  /\ outbox' = IF d = NoConn \/ d \in hungup THEN outbox
               ELSE [outbox EXCEPT ![d] = Append(@, NextPiece(job))]
  /\ IF d = NoConn \/ d \in hungup \/ job.out + 1 = job.size
     THEN Answered(a)
     ELSE jobs' = [jobs EXCEPT ![a].out = @ + 1]
  /\ UNCHANGED <<bounds, backlog, hungup, inbox, files, clients, faults, tangled>>

\* ... and after its poll(), the write() on the descriptor, whatever that is by
\* now.  Nothing arrives at an end that is closed.
Write(a) ==
  LET job == jobs[a]
      d   == files[clients[job.conn].fd] IN
  /\ job.at = "write"
  /\ Use(job.conn)
  /\ outbox' = IF d = NoConn \/ d \in hungup THEN outbox
               ELSE [outbox EXCEPT ![d] = Append(@, NextPiece(job))]
  /\ IF d = NoConn \/ d \in hungup \/ job.out + 1 = job.size
     THEN Answered(a)
     ELSE jobs' = [jobs EXCEPT ![a].at = "test", ![a].out = @ + 1]
  /\ UNCHANGED <<bounds, backlog, hungup, inbox, files, clients, faults, tangled>>

\* The poll() has ended after a second with no room: the rest is given up.
GiveUp(a) ==
  /\ jobs[a].at = "write"
  /\ faults > 0 /\ faults' = faults - 1
  /\ Use(jobs[a].conn)
  /\ Answered(a)
  /\ UNCHANGED <<bounds, backlog, hungup, inbox, outbox, files, clients, tangled>>

\* Client::unref: ref_count-- ...
Unref(a) ==
  LET c == jobs[a].conn IN
  /\ jobs[a].at = "unref"
  /\ Use(c) /\ Overlap(a, c)
  /\ jobs' = [jobs EXCEPT ![a].at = IF clients[c].ref_count < 1 THEN "last" ELSE "count",
                          ![a].seen = clients[c].ref_count]
  /\ UNCHANGED <<bounds, backlog, hungup, inbox, outbox, files, clients, faults>>

Count(a) ==
  LET c == jobs[a].conn IN
  /\ jobs[a].at = "count"
  /\ Use(c)
  /\ clients' = [clients EXCEPT ![c].ref_count = jobs[a].seen - 1]
  /\ Goto(a, "last")
  /\ UNCHANGED <<bounds, backlog, hungup, inbox, outbox, files, faults, tangled>>

\* ... and delete this when none is left.  A command whose thread the loop has
\* deleted is answered with an error.
DeleteThis(a) ==
  LET job == jobs[a]
      c   == job.conn IN
  /\ job.at = "last"
  /\ Use(c)
  /\ clients' = IF job.seen > 0 /\ clients[c].ref_count = 0
                THEN [clients EXCEPT ![c].freed = TRUE] ELSE clients
  /\ jobs' = [jobs EXCEPT ![a] = IF job.query > 0 THEN [job EXCEPT !.at = "test", !.size = 1, !.seen = 0]
                                 ELSE Idle]
  /\ UNCHANGED <<bounds, backlog, hungup, inbox, outbox, files, faults, tangled>>

ActorStep(a) ==
  \/ Test(a) \/ Write(a) \/ GiveUp(a) \/ Unref(a) \/ Count(a) \/ DeleteThis(a)
  \/ a \in Threads /\ (Work(a) \/ Ref(a))

LoopStep == \E c \in Conns : Connect(c) \/ Receive(c) \/ Error(c)
===============================================================================
