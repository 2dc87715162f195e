------------------------------- MODULE Queries -------------------------------
(***************************************************************************)
(* The commands that choose users with a filter and rank them: the event   *)
(* loop parses the where part of a command word by word (Filter) and then  *)
(* starts the thread of the command (Ranking), while the threads of the    *)
(* commands before it still run.                                           *)
(***************************************************************************)
EXTENDS Ranking

CONSTANT RankTexts  \* the where parts of tops and generates

VARIABLE command  \* the command whose filter is being parsed

vars == <<parserVars, rankingVars, command>>

NoCommand == [do |-> "nothing"]

Init == ParserInit /\ RankingInit /\ command = NoCommand

WhereCommands ==
  [do : {"top"}, inversed : BOOLEAN, size : Sizes]
    \cup [do : {"generate"}, inversed : BOOLEAN, name : Names]

RankWheres == {t \in Wheres : t.text \in RankTexts}

\* A command that does something else with its filter, count say: its text
\* is any one, and only the parser is looked at.
Count == [do |-> "count"]

Receive(c, t) ==
  /\ parse = "idle"
  /\ IF c = Count THEN UNCHANGED queries ELSE Comes
  /\ command' = c
  /\ Compile(t)
  /\ UNCHANGED <<userVars, contestVars, vector, job>>

\* A filter without an expression refuses the command; one that leaves words
\* behind does so once contests generate has made its contest.
Run ==
  /\ parse = "compiled"
  /\ command' = NoCommand
  /\ UNCHANGED queries
  /\ CASE command.do = "generate" /\ expr # NoExpr ->
             Generate(command.name, expr, command.inversed, Accepted)
       [] command.do = "top" /\ Accepted -> StartTop(expr, command.inversed, command.size)
       [] OTHER -> UNCHANGED <<userVars, contestVars, vector, job>>
  /\ ParserFree

Other ==
  /\ parse = "idle"
  /\ \/ \E n \in Names, s \in Slices : Get(n, s.from, s.limit)
     \/ \E n \in Names, u \in UserIds : Find(n, u)
     \/ \E n \in Names : Clear(n)
     \/ \E n \in Names : Delete(n)
     \/ ChangeUser
  /\ UNCHANGED <<parserVars, command>>

\* The parser shares nothing with the threads: that they wait for it leaves
\* no result out.  A pop from an empty stack ends them all.
ThreadStep(w) == parse = "idle" /\ Thread(w) /\ UNCHANGED <<parserVars, command>>

ParseStep == ParseNext /\ UNCHANGED <<rankingVars, command>>

Next ==
  \/ \E c \in WhereCommands, t \in RankWheres : Receive(c, t)
  \/ /\ queries = 0 /\ changes = 0
     /\ \E t \in Wheres : Receive(Count, t)
  \/ ParseStep
  \/ Run
  \/ Other
  \/ \E w \in Workers : ThreadStep(w)

\* The scheduler runs every thread that can go on, the event loop too.
Spec ==
  /\ Init /\ [][Next]_vars
  /\ WF_vars(ParseStep \/ Run)
  /\ \A w \in Workers : WF_vars(ThreadStep(w))

TypeOK == ParserOK /\ RankingOK
=============================================================================
