------------------------------- MODULE Sessions -------------------------------
(***************************************************************************)
(* A PHP process (topy-php/php_topy.c) and the server it talks to.  The    *)
(* process has one connection resource, and a socket at a time; a command  *)
(* carries a transaction id, which tells its answer from those of earlier  *)
(* commands that were not waited for.                                      *)
(***************************************************************************)
EXTENDS Clients

VARIABLES
  php,           \* the connection resource, and where its functions are
  sent,          \* how many commands were sent
  result         \* history: the last answer that was accepted, and for which command

phpVars == <<php, sent, result>>
vars == <<backlog, hungup, inbox, outbox, faults, serverVars, phpVars>>

Stop == {"none", "idle", "clear", "send", "resend", "read"}
Resource ==
  [at : Stop, socket : Conns \cup {NoConn}, tid : 0 .. TidLimit - 1,
   query : Nat, kind : Kind, size : Nat, wait : BOOLEAN, got : Seq(Piece)]

Nothing == [query |-> 0, pieces |-> <<>>]

\* The type of the state: a Client is made for a connection once, has the
\* descriptor it was accepted on until it is closed, and a deleted thread has
\* no job (events.cc:39-162).
TypeOK ==
  /\ bounds \in Scenarios
  /\ backlog \subseteq Conns /\ hungup \subseteq Conns
  /\ inbox \in [Conns -> Seq(Query)] /\ outbox \in [Conns -> Seq(Piece)]
  /\ files \in [Fds -> Conns \cup {NoConn}]
  /\ clients \in [Conns -> Client]
  /\ jobs \in [Actors -> Job]
  /\ tangled \subseteq Conns /\ misused \subseteq Conns
  /\ faults \in Nat /\ sent \in 0 .. bounds.queries + 1
  /\ php \in Resource
  /\ result \in [query : Nat, pieces : Seq(Piece)]
  /\ \A c \in Conns : clients[c].opened <=> Accepted(c) /\ files[clients[c].fd] = c
  /\ jobs[Loop].at # "work"

Fresh(s) ==
  [at |-> "idle", socket |-> s, tid |-> 0, query |-> 0,
   kind |-> "now", size |-> 0, wait |-> FALSE, got |-> <<>>]

Init ==
  /\ ClientsInit
  /\ php = [Fresh(NoConn) EXCEPT !.at = "none"]
  /\ sent = 0
  /\ result = Nothing

-------------------------------------------------------------------------------
Unused == {c \in 1 .. bounds.conns : c \notin backlog /\ ~Made(c)}

\* socket_open: a new connection, or none.  The listening socket accepts it
\* before the server does.
SocketOpen(s) ==
  \/ /\ Unused # {} /\ s = Min(Unused)
     /\ backlog' = backlog \cup {s}
     /\ UNCHANGED faults
  \/ /\ s = NoConn
     /\ faults > 0 /\ faults' = faults - 1
     /\ UNCHANGED backlog

\* connection_close: it returns when there is a socket to close, so that what is
\* closed is at most -1; the socket stays open, and its answers are lost.
ConnectionClose(s) == IF s # NoConn THEN {} ELSE {s} \ {NoConn}

\* connection_reconnect.
Reconnect(s) ==
  /\ hungup' = hungup \cup ConnectionClose(php.socket)
  /\ SocketOpen(s)

\* topy_connect and topy_pconnect, with no resource.
TopyConnect ==
  /\ php.at = "none"
  /\ \E s \in Conns \cup {NoConn} :
       /\ SocketOpen(s)
       /\ php' = IF s = NoConn THEN php ELSE Fresh(s)
  /\ UNCHANGED <<hungup, inbox, outbox, serverVars, sent, result>>

\* topy_reconnect, or a topy_pconnect that finds a resource without a socket.
TopyReconnect ==
  /\ php.at = "idle"
  /\ \E s \in Conns \cup {NoConn} : Reconnect(s) /\ php' = [php EXCEPT !.socket = s]
  /\ UNCHANGED <<inbox, outbox, serverVars, sent, result>>

\* connection_free: the script ends, or the process if the resource persists.
ConnectionFree ==
  /\ php.at = "idle"
  /\ hungup' = (hungup \cup {php.socket}) \ {NoConn}
  /\ php' = [Fresh(NoConn) EXCEPT !.at = "none"]
  /\ UNCHANGED <<backlog, inbox, outbox, faults, serverVars, sent, result>>

Ended == outbox[php.socket] = <<>> /\ ~Connected(php.socket)     \* end of file

\* topy_query (with wait) and topy_query_send, up to the poll() of
\* connection_clear, which tells whether there is anything to read.
TopyQuery(kind, size, wait) ==
  /\ php.at = "idle" /\ php.socket # NoConn
  /\ sent < bounds.queries
  /\ php' = [php EXCEPT !.kind = kind, !.size = size, !.wait = wait, !.got = <<>>,
                        !.at = IF outbox[php.socket] # <<>> \/ Ended THEN "clear" ELSE "send"]
  /\ UNCHANGED <<backlog, hungup, inbox, outbox, faults, serverVars, sent, result>>

\* connection_clear reads whatever comes, until the time out of the socket or
\* the end of the file.
ConnectionClear ==
  /\ php.at = "clear"
  /\ IF outbox[php.socket] # <<>>
     THEN /\ outbox' = [outbox EXCEPT ![php.socket] = <<>>]
          /\ UNCHANGED php
     ELSE /\ php' = [php EXCEPT !.at = "send"]
          /\ UNCHANGED outbox
  /\ UNCHANGED <<backlog, hungup, inbox, faults, serverVars, sent, result>>

\* Mutant: every command has the same transaction id.
MutNextTid == php.tid

NextTid == (php.tid + 1) % TidLimit

Command(s) == [id |-> sent + 1, conn |-> s, tid |-> NextTid, kind |-> php.kind, size |-> php.size]

Sent(s) ==
  [php EXCEPT !.at = IF php.wait THEN "read" ELSE "idle", !.socket = s,
              !.tid = NextTid, !.query = sent + 1, !.kind = "now", !.size = 0]

\* connection_query_send: when the server has closed its end, the write may
\* still succeed, and is lost, or fail.
QuerySend ==
  LET s == php.socket IN
  /\ php.at = "send"
  /\ sent' = sent + 1
  /\ \/ /\ inbox' = IF Connected(s) THEN [inbox EXCEPT ![s] = Append(@, Command(s))] ELSE inbox
        /\ php' = Sent(s)
     \/ /\ ~Connected(s)
        /\ php' = [Sent(s) EXCEPT !.at = "resend", !.kind = php.kind, !.size = php.size]
        /\ UNCHANGED inbox
  /\ UNCHANGED <<backlog, hungup, outbox, faults, serverVars, result>>

\* connection_query_send_safe: a second try, on a new connection.
QuerySendSafe ==
  /\ php.at = "resend"
  /\ \E s \in Conns \cup {NoConn} :
       /\ Reconnect(s)
       /\ IF s = NoConn
          THEN /\ php' = [php EXCEPT !.at = "idle", !.socket = NoConn]
               /\ UNCHANGED <<inbox, sent>>
          ELSE /\ inbox' = [inbox EXCEPT ![s] = Append(@, Command(s))]
               /\ php' = Sent(s)
               /\ sent' = sent + 1
  /\ UNCHANGED <<outbox, serverVars, result>>

\* topy_query_read.
TopyQueryRead ==
  /\ php.at = "idle" /\ php.socket # NoConn /\ php.query > 0
  /\ php' = [php EXCEPT !.at = "read", !.got = <<>>]
  /\ UNCHANGED <<backlog, hungup, inbox, outbox, faults, serverVars, sent, result>>

-------------------------------------------------------------------------------
\* connection_query_read_result.  It accepts an answer that has no transaction
\* id, or the last that was sent; any other makes it reconnect.
WrongTid(answer) == answer.tid # NoTid /\ answer.tid # php.tid

\* A read() returns some of what has come, and the answer is what was read once
\* this ends with "\r\n".
ReadResult ==
  LET s == php.socket IN
  /\ php.at = "read"
  /\ \E n \in 1 .. Len(outbox[s]) :
       LET got == php.got \o SubSeq(outbox[s], 1, n)
           answer == Head(got) IN
       /\ outbox' = [outbox EXCEPT ![s] = SubSeq(@, n + 1, Len(@))]
       /\ \/ /\ ~outbox[s][n].last
             /\ php' = [php EXCEPT !.got = got]
             /\ UNCHANGED <<backlog, hungup, faults, result>>
          \/ /\ outbox[s][n].last
             /\ answer.first => ~WrongTid(answer)
             /\ php' = [php EXCEPT !.at = "idle", !.got = <<>>]
             /\ result' = IF answer.first THEN [query |-> php.query, pieces |-> got] ELSE result
             /\ UNCHANGED <<backlog, hungup, faults>>
          \/ /\ outbox[s][n].last
             /\ answer.first /\ WrongTid(answer)
             /\ \E r \in Conns \cup {NoConn} :
                  Reconnect(r) /\ php' = [php EXCEPT !.at = "idle", !.got = <<>>, !.socket = r]
             /\ UNCHANGED result
  /\ UNCHANGED <<inbox, serverVars, sent>>

\* End of file.
ReadEnd ==
  /\ php.at = "read" /\ Ended
  /\ \E r \in Conns \cup {NoConn} :
       Reconnect(r) /\ php' = [php EXCEPT !.at = "idle", !.got = <<>>, !.socket = r]
  /\ UNCHANGED <<inbox, outbox, serverVars, sent, result>>

\* An error, such as the time out: the socket is kept.
ReadError ==
  /\ php.at = "read" /\ outbox[php.socket] = <<>>
  /\ php' = [php EXCEPT !.at = "idle", !.got = <<>>]
  /\ UNCHANGED <<backlog, hungup, inbox, outbox, faults, serverVars, sent, result>>

PhpStep ==
  \/ TopyConnect \/ TopyReconnect \/ ConnectionFree
  \/ \E kind \in bounds.kinds, size \in bounds.sizes, wait \in bounds.waits : TopyQuery(kind, size, wait)
  \/ ConnectionClear \/ QuerySend \/ QuerySendSafe \/ TopyQueryRead
  \/ ReadResult \/ ReadEnd \/ ReadError

ServerStep == (LoopStep \/ \E a \in Actors : ActorStep(a)) /\ UNCHANGED phpVars

Next == PhpStep \/ ServerStep

\* The scheduler runs the event loop and each thread, and libevent serves events
\* as long as there are.  Nothing is assumed of PHP.
Fairness ==
  /\ \A a \in Actors : WF_vars(ActorStep(a) /\ UNCHANGED phpVars)
  /\ WF_vars(LoopStep /\ UNCHANGED phpVars)

Spec == Init /\ [][Next]_vars /\ Fairness

-------------------------------------------------------------------------------
Using(c) == {a \in Actors : jobs[a].conn = c}

\* A Client is freed once its connection is closed and no thread has it, not
\* before and not later, and nothing uses it after, as long as no two actors
\* have changed its ref_count at once, which no mutex prevents (events.cc:132-146).
FreedWhenUnused ==
  \A c \in Conns \ tangled :
    /\ c \notin misused
    /\ Made(c) => (clients[c].freed <=> ~clients[c].opened /\ Using(c) = {})

\* opened is tested for every piece of an answer (events.cc:36): a thread whose
\* connection is closed in the middle, and its descriptor reused, writes one
\* piece at most to the client of another connection.
OneStrayPiece ==
  \A c \in Conns, q \in 1 .. sent :
    Cardinality({i \in DOMAIN outbox[c] : outbox[c][i].query = q /\ outbox[c][i].conn # c}) <= 1

\* When a PHP query returns the answer of another command, this answer has no
\* transaction id, as those of the threads (threads.cc:38), or the ids have come
\* round since: one that has an id is told apart (php_topy.c:283-293), on whatever
\* connection, after whatever time out and second try.
WrongAnswerHasNoTid ==
  result # Nothing =>
    LET answer == Head(result.pieces) IN
    \/ answer.tid = NoTid
    \/ answer.query <= result.query /\ (result.query - answer.query) % TidLimit = 0

\* A closed connection is freed in the end, whatever its threads are doing
\* (events.cc:148-160, client_thread.cc:7-9).
ClosedClientsAreFreed ==
  \A c \in Conns : Made(c) /\ ~clients[c].opened ~> clients[c].freed \/ c \in tangled

\* The transaction id of a command is returned with its answer (server.cc:86-87).
TidIsReturned ==
  \A c \in Conns : \A i \in DOMAIN outbox[c] : outbox[c][i].first => outbox[c][i].tid # NoTid

===============================================================================
