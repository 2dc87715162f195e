-------------------------------- MODULE Filter --------------------------------
(***************************************************************************)
(* The where part of a command: ExprParser (expr_bool.cc), one recursive   *)
(* descent over the words of the command, which leaves its operands on a   *)
(* stack, and Filter::compile (filter.cc), which runs it on the event loop *)
(* with the mutex of the groups held.                                      *)
(*                                                                         *)
(* calls is the C++ call stack: parse_expr, and the callers of             *)
(* parse_element that wait for it ("(", not, and, or).  An expression tree *)
(* is modelled by what its get() says: the set of the contexts, a user id  *)
(* and a group, for which it is true.  A group id is the set of its bits.  *)
(***************************************************************************)
EXTENDS Sequences, SequencesExt, FiniteSets, FiniteSetsExt

CONSTANTS
  UserIds,   \* the ids that prefixes and suffixes tell apart
  Groups,    \* the groups of users
  Matches,   \* Matches[w]: the ids that the prefix or suffix w matches
  Group,     \* Group[n]: the id and the mask of the group called n
  NoExpr,    \* no tree
  Texts      \* other sequences of words that commands carry after where

Contexts   == [id : UserIds, group : Groups]
Operators  == {"and", "or"}
GroupNames == DOMAIN Group
End        == ""

Reserved   == {End, "(", ")", "[", "]", "!", "true", "false"} \cup Operators

\* A prefix begins with ^ and a suffix ends with $; the groups are in a map.
ASSUME FilterAssumption ==
  /\ \A w \in DOMAIN Matches : Matches[w] \subseteq UserIds
  /\ DOMAIN Matches \subseteq STRING \ Reserved
  /\ GroupNames \subseteq STRING /\ IsFiniteSet(GroupNames)
  /\ Texts \subseteq Seq(STRING)

VARIABLES
  text,     \* history: the words after where
  meaning,  \* history: what their writer means; NoExpr if they make no sense
  words,    \* those that the parser has not read
  current,  \* WordsParser::current
  calls,    \* the pending calls, innermost first
  stack,    \* ExprParser::stack, its back first
  parse,       \* "element": about to parse one; "true", "false": what the
            \* innermost call has returned; "compiled"; "wild": pop() of an
            \* empty stack
  expr      \* Filter::expr; NoExpr while there is none

parserVars == <<text, meaning, words, current, calls, stack, parse, expr>>

ParserInit ==
  /\ text = <<>> /\ meaning = NoExpr /\ words = <<>> /\ current = End
  /\ calls = <<>> /\ stack = <<>> /\ parse = "idle" /\ expr = NoExpr

\* parse_where, Filter::compile, ExprParser::parse: one element is read.
Compile(t) ==
  /\ text' = t.text /\ meaning' = t.means
  /\ words' = t.text /\ current' = "where"
  /\ calls' = <<>> /\ stack' = <<>> /\ parse' = "element" /\ expr' = NoExpr

\* The parser and the words of the command are gone.
ParserFree ==
  /\ text' = <<>> /\ meaning' = NoExpr /\ words' = <<>> /\ current' = End
  /\ calls' = <<>> /\ stack' = <<>> /\ parse' = "idle" /\ expr' = NoExpr

-----------------------------------------------------------------------------
\* What the nodes of a tree say of a context.

Prefixed(w) == {c \in Contexts : c.id \in Matches[w]}

InFilter(f) ==
  {c \in Contexts : IF f.mask = {} THEN c.group = f.id
                    ELSE c.group \cap f.mask = f.id}

Not(a)    == Contexts \ a
And(a, b) == b \cap a
Or(a, b)  == b \cup a

\* Mutant: the masks are not put together.
MutJoin(names) == [id |-> UNION {Group[n].id : n \in names}, mask |-> {}]

\* parse_filter: the groups between brackets are put together bit by bit.
Join(names) ==
  [id |-> UNION {Group[n].id : n \in names}, mask |-> UNION {Group[n].mask : n \in names}]

-----------------------------------------------------------------------------
\* parse_element

Next1 == IF words = <<>> THEN End ELSE Head(words)
Rest  == IF words = <<>> THEN words ELSE Tail(words)

\* The word being read is w, and reading it calls or returns.
Word(w) ==
  /\ parse = "element" /\ Next1 = w
  /\ current' = w /\ words' = Rest
  /\ UNCHANGED <<text, meaning, expr>>

Push(e) == stack' = <<e>> \o stack /\ parse' = "true" /\ UNCHANGED calls

Fail == parse' = "false" /\ UNCHANGED <<calls, stack>>

Call(frames) == calls' = frames \o calls /\ parse' = "element" /\ UNCHANGED stack

Nothing    == \E w \in {End, ")"} : Word(w) /\ Fail
Paren      == Word("(") /\ Call(<<"expr", "(">>)
Constant   == \/ Word("true") /\ Push(Contexts)
              \/ Word("false") /\ Push({})
Affix      == \E w \in DOMAIN Matches : Word(w) /\ Push(Prefixed(w))
Negation   == Word("!") /\ Call(<<"!">>)

\* Mutant: the first operand is not looked for.
MutOperation == \E w \in Operators : Word(w) /\ Call(<<w>>)

Operation == \E w \in Operators : Word(w) /\ IF stack = <<>> THEN Fail ELSE Call(<<w>>)

Readable   == (Reserved \ {"]"}) \cup DOMAIN Matches
Unexpected == Next1 \notin Readable /\ Word(Next1) /\ Fail

\* "[": all the words up to "]", or up to one that names no group; a group
\* that is called "]" is never looked for.
Brackets ==
  /\ parse = "element" /\ Next1 = "["
  /\ UNCHANGED <<text, meaning, expr, calls>>
  /\ LET stop == SelectInSeq(Tail(words), LAMBDA w : w \in {"]", End} \/ w \notin GroupNames)
         last == IF stop = 0 THEN End ELSE Tail(words)[stop]
     IN  /\ current' = last
         /\ words' = IF stop = 0 THEN <<>> ELSE SubSeq(words, stop + 2, Len(words))
         /\ IF last = "]"
            THEN /\ stack' = <<InFilter(Join(ToSet(SubSeq(words, 2, stop))))>> \o stack
                 /\ parse' = "true"
            ELSE parse' = "false" /\ UNCHANGED stack

-----------------------------------------------------------------------------
\* Returns.

Return(frame) ==
  /\ parse \in {"true", "false"} /\ calls # <<>> /\ Head(calls) = frame
  /\ UNCHANGED <<text, meaning, words, current, expr>>

\* parse_expr goes on until an element fails.
ReturnExpr ==
  /\ Return("expr")
  /\ UNCHANGED stack
  /\ IF parse = "true" THEN parse' = "element" /\ UNCHANGED calls
     ELSE /\ parse' = IF current \in {")", End} THEN "true" ELSE "false"
          /\ calls' = Tail(calls)

\* Mutant: the end of the text closes parentheses too.
MutReturnParen ==
  /\ Return("(")
  /\ calls' = Tail(calls)
  /\ UNCHANGED <<stack, parse>>

ReturnParen ==
  /\ Return("(")
  /\ calls' = Tail(calls)
  /\ parse' = IF parse = "true" /\ current = ")" THEN "true" ELSE "false"
  /\ UNCHANGED stack

Pop(n, made) ==
  IF Len(stack) < n THEN parse' = "wild" /\ UNCHANGED stack
  ELSE stack' = <<made>> \o SubSeq(stack, n + 1, Len(stack)) /\ parse' = "true"

Apply(frame) ==
  CASE frame = "!"   -> Pop(1, Not(stack[1]))
    [] frame = "and" -> Pop(2, And(stack[1], stack[2]))
    [] frame = "or"  -> Pop(2, Or(stack[1], stack[2]))

ReturnOperator ==
  \E frame \in Operators \cup {"!"} :
    /\ Return(frame)
    /\ calls' = Tail(calls)
    /\ IF parse = "true" THEN Apply(frame) ELSE UNCHANGED <<stack, parse>>

\* ExprParser::parse keeps the tree when it is alone on the stack.  The
\* command goes on with the next word, and wants none.
Compiled ==
  /\ parse \in {"true", "false"} /\ calls = <<>>
  /\ parse' = "compiled"
  /\ expr' = IF parse = "true" /\ Len(stack) = 1 THEN stack[1] ELSE NoExpr
  /\ UNCHANGED <<text, meaning, words, current, calls, stack>>

Accepted == expr # NoExpr /\ words = <<>>

ParseNext ==
  \/ Nothing \/ Paren \/ Constant \/ Affix \/ Negation \/ Operation
  \/ Unexpected \/ Brackets
  \/ ReturnExpr \/ ReturnParen \/ ReturnOperator \/ Compiled

-----------------------------------------------------------------------------
\* The expressions as their writer means them, with their text: a negation,
\* a chain of operators in parentheses, which go from left to right, and a
\* list of groups, which a user must all be in.

Written(t, means) == [text |-> t, means |-> means]

Atoms == {Written(<<"true">>, Contexts), Written(<<"false">>, {})}
           \cup {Written(<<w>>, Prefixed(w)) : w \in DOMAIN Matches}

\* Groups can be met together when they speak of different bits.
Independent(names) ==
  \A m, n \in names : /\ Group[n].mask # {}
                      /\ m # n => Group[m].mask \cap Group[n].mask = {}

GroupLists ==
  {Written(<<"[">> \o SetToSeq(names) \o <<"]">>,
           {c \in Contexts : \A n \in names : c \in InFilter(Group[n])}) :
     names \in {s \in SUBSET GroupNames : s # {} /\ (Cardinality(s) = 1 \/ Independent(s))}}

Negated(es) == {Written(<<"!">> \o e.text, Contexts \ e.means) : e \in es}

Combined(op, a, b) == IF op = "and" THEN a \cap b ELSE a \cup b

Chain2(es) ==
  {Written(<<"(">> \o e[1].text \o <<op>> \o e[2].text \o <<")">>,
           Combined(op, e[1].means, e[2].means)) : e \in es \X es, op \in Operators}

Chain3(es) ==
  {Written(<<"(">> \o e[1].text \o <<o[1]>> \o e[2].text \o <<o[2]>> \o e[3].text \o <<")">>,
           Combined(o[2], Combined(o[1], e[1].means, e[2].means), e[3].means)) :
     e \in es \X es \X es, o \in Operators \X Operators}

Simple    == Atoms \cup GroupLists
Sentences == Simple \cup Negated(Simple) \cup Chain2(Simple \cup Negated(Atoms))
               \cup Chain3(Atoms) \cup Negated(Chain2(Atoms))
               \cup Chain2(Atoms \cup Negated(Chain2(Atoms)))

Wheres == Sentences \cup {Written(t, NoExpr) : t \in Texts \ {s.text : s \in Sentences}}

\* A place where an operand is missing, or stands in a list of groups that
\* no "]" closes.
Incomplete(t) ==
  \E i, k \in DOMAIN t :
    /\ i < k /\ t[i] \in {"(", "!"} \cup Operators /\ t[k] \in {")"} \cup Operators
    /\ k > i + 1 => t[i + 1] = "[" /\ \A m \in i + 2 .. k - 1 : t[m] \in GroupNames

ParserOK ==
  /\ parse \in {"idle", "element", "true", "false", "compiled", "wild"}
  /\ ToSet(calls) \subseteq {"expr", "(", "!"} \cup Operators
  /\ ToSet(stack) \subseteq SUBSET Contexts
  /\ expr \in {NoExpr} \cup SUBSET Contexts
  /\ IsSuffix(words, text)

\* A filter written as the help says is accepted and means what it says
\* (ExprParser::parse, parse_element, parse_filter, Filter::compile).
FilterMeansWhatItSays ==
  (parse = "compiled" /\ meaning # NoExpr) => Accepted /\ expr = meaning

\* The parser pops from an empty stack only where the text misses an operand,
\* or closes a parenthesis inside a list of groups; parentheses, negations and
\* brackets never leave too few behind.
UnderflowIsMissingOperand == parse = "wild" => Incomplete(text)

\* A filter that is accepted has as many "(" as ")", and a "(" that begins it
\* is closed by its last word only (ExprParser::parse_expr, Filter::parse).
Depth(t, i) == Cardinality({k \in 1 .. i : t[k] = "("}) - Cardinality({k \in 1 .. i : t[k] = ")"})
AcceptedIsBalanced ==
  (parse = "compiled" /\ Accepted) =>
    /\ Depth(text, Len(text)) = 0
    /\ \A i \in 1 .. Len(text) - 1 : Head(text) = "(" => Depth(text, i) > 0
=============================================================================
