-------------------------------- MODULE Fields --------------------------------
(***************************************************************************)
(* The fields of the users at work: the table of fields (fields.cc), which *)
(* is frozen when the first User is made; the commands on a field, which   *)
(* the event loop runs with User::lock() held; a report thread that reads  *)
(* the fields of every user while it holds the timer; and restarts from a  *)
(* dump.  What a field is and what each operation makes of it is Field,    *)
(* the time is Timer.                                                      *)
(*                                                                         *)
(* The one race between the event loop and a report that does not go       *)
(* through User::lock() is about the timer: refresh() tests lock_count and *)
(* writes the time afterwards.  A command is therefore two steps, Begin,   *)
(* which takes the lock of the user and reads lock_count, and Execute.     *)
(***************************************************************************)
EXTENDS Field, Functions

CONSTANTS
  Users,        \* user ids
  Names,        \* field names
  MaxFields,    \* USER_FIELDS_COUNT
  Configs,      \* the tables of fields a configuration file may define
  NewTypes,     \* the types of the fields that "fields add" commands ask for
  Amounts,      \* the numbers that "add" and "set" commands carry
  Totals,       \* the numbers that "total set" commands carry
  Items,        \* the items that "insert" commands carry
  MaxCommands,  \* MaxCommands[t]: a bound on the commands, with fields of type t
  MaxRestarts,  \* a bound on the restarts
  MaxReports    \* a bound on the reports

Periods == 0 .. MaxClock

\* StringUtils::to_int reads an int, to_uint what a uint32_t holds; and no clock
\* is set to a time that an int does not hold.
ASSUME FieldsAssumption ==
  /\ MaxFields \in Nat
  /\ Configs \subseteq Seq([name : Names, type : Types])
  /\ Amounts \cup Items \subseteq Ints32
  /\ Totals \subseteq 0 .. Values[4] - 1
  /\ MaxClock <= IntMax
  /\ NewTypes \subseteq Types
  /\ \A c \in Configs : IsInjective([i \in DOMAIN c |-> c[i].name])

VARIABLES
  defs,      \* Fields::fields_def: names and types, in their order
  frozen,    \* Fields::frozen
  field,     \* User::field of every user there is
  main,      \* the command of the event loop, or Idle
  report,    \* the report under way, or Idle
  up,        \* whether the server runs: a restore that fails ends it
  past,      \* history: what the contracts of the fields say each one holds
  counted,   \* history: what the contracts say the report has been given
  beyond,    \* history: an addition too great for the samples, a sum too great
             \* for an int, or a clock set back before a restart, has been met
  commands, restarts, reports

registryVars == <<defs, frozen>>
boundVars    == <<commands, restarts, reports>>
historyVars  == <<past, counted, beyond>>
vars == <<timeVars, registryVars, field, main, report, up, historyVars, boundVars>>

Idle == [at |-> "idle"]

\* A dump keeps no more fields of the configuration than the table holds.
Table(config) == SubSeq(config, 1, Lesser(Len(config), MaxFields))

\* What the contract of a field says it holds: a counter for each period, or
\* the list of all the items inserted, newest first.
NewPast(type) ==
  CASE type = "events" -> [x \in Units |-> [p \in Periods |-> 0]]
    [] type = "marks"  -> [num |-> [p \in Periods |-> 0], denom |-> [p \in Periods |-> 0]]
    [] OTHER           -> <<>>

Init ==
  /\ TimerInit
  /\ defs \in {Table(c) : c \in Configs}
  /\ frozen = FALSE
  /\ field = <<>> /\ past = <<>>
  /\ main = Idle /\ report = Idle
  /\ up = TRUE
  /\ counted = [x \in Units |-> [p \in Periods |-> 0]]
  /\ beyond = FALSE
  /\ commands = 0 /\ restarts = 0 /\ reports = 0

Type(i)  == defs[i].type
Known(u) == u \in DOMAIN field

-----------------------------------------------------------------------------
\* fields add <name> <type>

NameTaken(name) == \E i \in DOMAIN defs : defs[i].name = name

\* Mutant: a field is added though users exist.
MutFieldsAdd(name, type) ==
  /\ up /\ commands < MaxCommands[type] /\ main = Idle
  /\ defs' = IF Len(defs) >= MaxFields \/ NameTaken(name) THEN defs
             ELSE Append(defs, [name |-> name, type |-> type])
  /\ commands' = commands + 1
  /\ UNCHANGED <<timeVars, frozen, field, main, report, up, historyVars, restarts, reports>>

FieldsAdd(name, type) ==
  /\ up /\ commands < MaxCommands[type] /\ main = Idle
  /\ defs' = IF frozen \/ Len(defs) >= MaxFields \/ NameTaken(name) THEN defs
             ELSE Append(defs, [name |-> name, type |-> type])
  /\ commands' = commands + 1
  /\ UNCHANGED <<timeVars, frozen, field, main, report, up, historyVars, restarts, reports>>

\* user* <id>: the constructor of User freezes the table.
UserCreate(u) ==
  /\ up /\ main = Idle /\ report = Idle /\ ~Known(u)
  /\ frozen' = TRUE
  /\ LET With(table, entry) ==
           [v \in DOMAIN table \cup {u} |-> IF v = u THEN entry ELSE table[v]]
     IN  /\ field' = With(field, [i \in DOMAIN defs |-> New(Type(i))])
         /\ past'  = With(past, [i \in DOMAIN defs |-> NewPast(Type(i))])
  /\ UNCHANGED <<timeVars, defs, main, report, up, counted, beyond, boundVars>>

-----------------------------------------------------------------------------
\* Commands on a field.

\* Those of every field; events and marks refuse set, and logs ignore it.
CommonCommands(type) ==
  {[op |-> "get"], [op |-> "clear"]}
    \cup [op : {"add"}, n : Amounts]
    \cup [op : {"set"}, n : CASE type \in Ints      -> Amounts
                              [] type = "timestamp" -> Amounts \cap Nat
                              [] OTHER              -> {}]

EventsCommands == [op : {"total_set"}, n : Totals]

LogCommands == [op : {"insert"}, n : Items, unique : BOOLEAN, now : BOOLEAN]

FieldCommands(type) ==
  CommonCommands(type) \cup
    (CASE type = "events" -> EventsCommands
       [] type \in Logs   -> LogCommands
       [] OTHER           -> {})

\* The commands that call timer.refresh().
Refreshes(type, c) ==
  CASE type \in {"events", "marks"} -> c.op \in {"get", "add"}
    [] type = "timestamp"           -> c.op = "add"
    [] type \in Logs                -> c.op = "add" \/ (c.op = "insert" /\ c.now)
    [] OTHER                        -> FALSE

Apply(type, f, c, T) ==
  CASE c.op = "get"       -> Update(type, f, T)
    [] c.op = "clear"     -> Clear(type, f)
    [] c.op = "add"       -> Add(type, f, c.n, T)
    [] c.op = "set"       -> Set(type, f, c.n)
    [] c.op = "total_set" -> [f EXCEPT !.total = c.n]
    [] c.op = "insert"    ->
         Insert(type, IF c.unique THEN LogDelete(f, c.n) ELSE f,
                c.n, IF c.now THEN T.now ELSE 0)

\* What the contract makes of the same command.
Counters(p, c, T, floor) ==
  [p EXCEPT ![T] = IF floor THEN Greater(0, @ + c) ELSE @ + c]

\* unique takes out one entry of the item, the newest, and never item -1.
WithoutNewest(p, n) ==
  LET k == SelectInSeq(p, LAMBDA e : e[1] = n)
  IN  IF k = 0 \/ n = -1 THEN p ELSE RemoveAt(p, k)

Recorded(type, p, c, T) ==
  CASE c.op = "clear" -> NewPast(type)
    [] c.op = "add" /\ type = "events" ->
         [x \in Units |-> Counters(p[x], c.n, T.at[x], TRUE)]
    [] c.op = "add" /\ type = "marks" ->
         [num   |-> Counters(p.num, c.n, T.at.months, FALSE),
          denom |-> Counters(p.denom, 1, T.at.months, FALSE)]
    [] c.op = "add" /\ type \in Logs -> <<<<c.n, T.now>>>> \o p
    [] c.op = "insert" ->
         <<<<c.n, IF c.now THEN T.now ELSE 0>>>>
           \o (IF c.unique THEN WithoutNewest(p, c.n) ELSE p)
    [] OTHER -> p

\* A sample that is one byte wide takes what fits two; IncOrExpand drops more.
\* What was counted with it, p, has to stay an int.
Beyond(type, p, c, T) ==
  c.op = "add" /\
    CASE type = "events" ->
           \/ c.n > Values[2] - Values[1]
           \/ \E x \in Units : p[x][T.at[x]] + c.n > IntMax
      [] type = "marks"  ->
           \/ c.n \notin Half(1) - Half(2) .. Half(2) - Half(1)
           \/ p.num[T.at.months] + c.n \notin Ints32
           \/ p.denom[T.at.months] + 1 > IntMax
      [] OTHER -> FALSE

\* A field restored with a date that the clock, set back, has yet to reach.
Ahead(type, f, T) ==
  \/ type = "events" /\ \E x \in Units : f.date[x] > T.at[x]
  \/ type = "marks" /\ f.month > T.at.months

\* Mutant: refresh() finds a lock_count of one to be free.
MutBegin(u, i, c) ==
  /\ up /\ commands < MaxCommands[Type(i)]
  /\ main = Idle /\ Known(u)
  /\ main' = [at |-> "command", user |-> u, field |-> i, command |-> c,
              held |-> locks > 1]
  /\ commands' = commands + 1
  /\ UNCHANGED <<timeVars, registryVars, field, report, up, historyVars, restarts, reports>>

Begin(u, i, c) ==
  /\ up /\ commands < MaxCommands[Type(i)]
  /\ main = Idle /\ Known(u)
  /\ main' = [at |-> "command", user |-> u, field |-> i, command |-> c,
              held |-> locks > 0]
  /\ commands' = commands + 1
  /\ UNCHANGED <<timeVars, registryVars, field, report, up, historyVars, restarts, reports>>

Execute ==
  /\ main.at = "command"
  /\ LET u == main.user
         i == main.field
         c == main.command
         T == IF Refreshes(Type(i), c) /\ ~main.held THEN Refreshed ELSE timer
     IN  /\ timer' = T
         /\ field' = [field EXCEPT ![u][i] = Apply(Type(i), @, c, T)]
         /\ past' = [past EXCEPT ![u][i] = Recorded(Type(i), @, c, T)]
         /\ beyond' = (beyond \/ Beyond(Type(i), past[u][i], c, T)
                          \/ Ahead(Type(i), field[u][i], T))
  /\ main' = Idle
  /\ UNCHANGED <<clock, locks, back, registryVars, report, up, counted, boundVars>>

-----------------------------------------------------------------------------
\* The report thread: timer.lock(), one user after the other, timer.unlock().

\* Mutant: the thread of a report takes the time without holding it.
MutTimerLock(i) ==
  /\ up /\ reports < MaxReports
  /\ report = Idle
  /\ timer' = Refreshed
  /\ report' = [at |-> "scan", field |-> i, left |-> DOMAIN field,
                 result |-> NewReport, since |-> timer'.at,
                 raced |-> main.at = "command" /\ ~main.held]
  /\ counted' = [x \in Units |-> [p \in Periods |-> 0]]
  /\ reports' = reports + 1
  /\ UNCHANGED <<clock, locks, back, registryVars, field, main, up, past, beyond,
                 commands, restarts>>

TimerLock(i) ==
  /\ up /\ reports < MaxReports
  /\ report = Idle
  /\ LET T == IF locks > 0 THEN timer ELSE Refreshed
     IN  /\ timer' = T
         /\ report' = [at |-> "scan", field |-> i, left |-> DOMAIN field,
                       result |-> NewReport, since |-> T.at,
                       raced |-> main.at = "command" /\ ~main.held]
  /\ locks' = locks + 1
  /\ counted' = [x \in Units |-> [p \in Periods |-> 0]]
  /\ reports' = reports + 1
  /\ UNCHANGED <<clock, back, registryVars, field, main, up, past, beyond, commands, restarts>>

\* The thread itself holds the timer: its own refresh() changes nothing.
Visit(u) ==
  /\ report.at = "scan" /\ u \in report.left
  /\ main.at = "command" => main.user # u
  /\ LET i == report.field
         f == Update(Type(i), field[u][i], timer)
     IN  /\ field' = [field EXCEPT ![u][i] = f]
         /\ report' = [report EXCEPT !.left = @ \ {u},
                                     !.result = ReportAdd(@, Type(i), f)]
         /\ counted' = IF Type(i) # "events" THEN counted
                       ELSE [x \in Units |-> [p \in Periods |->
                               counted[x][p] + past[u][i][x][p]]]
         /\ beyond' = (beyond \/ Ahead(Type(i), field[u][i], timer)
                          \/ \E x \in Units : \E p \in Periods : counted'[x][p] > IntMax)
  /\ UNCHANGED <<timeVars, registryVars, main, up, past, boundVars>>

\* A user that the filter refuses.
Skip(u) ==
  /\ report.at = "scan" /\ u \in report.left
  /\ main.at = "command" => main.user # u
  /\ report' = [report EXCEPT !.left = @ \ {u}]
  /\ UNCHANGED <<timeVars, registryVars, field, main, up, historyVars, boundVars>>

TimerUnlock ==
  /\ report.at = "scan" /\ report.left = {}
  /\ report' = Idle
  /\ locks' = Greater(0, locks - 1)
  /\ counted' = [x \in Units |-> [p \in Periods |-> 0]]
  /\ UNCHANGED <<clock, timer, back, registryVars, field, main, up, past, beyond, boundVars>>

-----------------------------------------------------------------------------
\* Dump, stop, start with a configuration, restore.

\* The text of an int is the text of a uint; no other two types look alike.
TextAlike(a, b) == a = b \/ {a, b} \subseteq Ints

Restorable(old, new, text) ==
  IF text
  THEN DOMAIN field # {} =>
         /\ Len(old) = Len(new)
         /\ \A i \in DOMAIN new : TextAlike(old[i].type, new[i].type)
  ELSE /\ Len(old) <= Len(new)
       /\ \A i \in DOMAIN old : old[i].type = new[i].type
       /\ DOMAIN field # {} => Len(old) = Len(new)

Restart(config, text) ==
  /\ up /\ restarts < MaxRestarts
  /\ main = Idle /\ report = Idle
  /\ restarts' = restarts + 1
  /\ up' = Restorable(defs, Table(config), text)
  /\ timer' = Unset
  /\ defs' = Table(config)
  /\ frozen' = (up' /\ DOMAIN field # {})
  /\ field' = IF ~up' THEN <<>>
              ELSE [u \in DOMAIN field |-> [i \in DOMAIN defs |->
                      IF text THEN TextField(Type(i), field[u][i])
                      ELSE BinaryField(Type(i), field[u][i])]]
  /\ past' = IF up' THEN past ELSE <<>>
  /\ UNCHANGED <<clock, locks, back, main, report, counted, beyond, commands, reports>>

Next ==
  \/ Tick /\ UNCHANGED <<registryVars, field, main, report, up, historyVars, boundVars>>
  \/ SetBack /\ UNCHANGED <<registryVars, field, main, report, up, historyVars, boundVars>>
  \/ \E n \in Names, t \in NewTypes : FieldsAdd(n, t)
  \/ \E u \in Users : UserCreate(u)
  \/ \E u \in DOMAIN field, i \in DOMAIN defs :
       \E c \in FieldCommands(Type(i)) : Begin(u, i, c)
  \/ Execute
  \/ \E i \in DOMAIN defs : Type(i) \in Reported /\ TimerLock(i)
  \/ \E u \in Users : Visit(u)
  \/ \E u \in Users : Skip(u)
  \/ TimerUnlock
  \/ \E c \in Configs, text \in BOOLEAN : Restart(c, text)

Spec == Init /\ [][Next]_vars

-----------------------------------------------------------------------------
FieldOK(type, f) ==
  CASE type = "events" ->
         /\ DOMAIN f = {"vec", "date", "total", "last"}
         /\ \A x \in Units : /\ f.vec[x] \in Vectors
                            /\ Count(f.vec[x]) <= Window[x]
                            /\ f.date[x] \in Periods \cup {-1}
    [] type = "marks" ->
         /\ f.num \in Vectors /\ f.denom \in Vectors
         /\ f.month \in Periods \cup {-1}
    [] type \in Logs -> f.items \in Vectors /\ f.dates \in Vectors
    [] OTHER -> f \in Int

\* Types; and every user has exactly the fields of the table, each of the
\* type it has there (User::fields_init, Fields::freeze, Fields::restore).
TypeOK ==
  /\ clock \in Periods /\ locks \in {0, 1} /\ back \in 0 .. MaxBack
  /\ timer.now \in Periods /\ timer.at \in [Units -> Periods]
  /\ \A i \in DOMAIN defs : defs[i] \in [name : Names, type : Types]
  /\ Len(defs) <= MaxFields
  /\ IsInjective([i \in DOMAIN defs |-> defs[i].name])
  /\ frozen = (DOMAIN field # {})
  /\ DOMAIN field \subseteq Users
  /\ \A u \in DOMAIN field : /\ DOMAIN field[u] = DOMAIN defs
                             /\ \A i \in DOMAIN defs : FieldOK(Type(i), field[u][i])

Of(types) == {e \in (DOMAIN field) \X (DOMAIN defs) : Type(e[2]) \in types}

\* Sample k of a vector whose first sample is of period d counts period d-k.
Tallies(v, d, p, window) ==
  \A q \in Periods :
    CASE d = -1 \/ q > d         -> p[q] = 0
      [] q <= d /\ d - q < Count(v) -> Sample(v, d - q) = p[q]
      [] OTHER                   -> d - q < window => p[q] = 0

\* Every sample of events and of marks counts the additions of its own
\* period, whatever periods nothing came in, whatever width the samples have
\* grown to, and after every restart (FieldEvents and FieldMarks update,
\* add, clear, dump and restore; INC_OR_EXPAND; StatsVector::translate).
WindowsAreTallies ==
  ~beyond =>
    /\ \A e \in Of({"events"}) : \A x \in Units :
         LET f == field[e[1]][e[2]]
         IN  Tallies(f.vec[x], f.date[x], past[e[1]][e[2]][x], Window[x])
    /\ \A e \in Of({"marks"}) :
         LET f == field[e[1]][e[2]]
             p == past[e[1]][e[2]]
         IN  /\ Tallies(f.num, f.month, p.num, MarksWindow)
             /\ Tallies(f.denom, f.month, p.denom, MarksWindow)

\* What the contract counts in the n periods up to t.
InLast(p, t, n) ==
  SumOf([k \in 1 .. n |-> IF t + 1 - k \in Periods THEN p[t + 1 - k] ELSE 0])

EventsTally(p, T, rule) ==
  LET w == Window[rule.of]
      n == IF rule.n = 0 THEN w ELSE Lesser(rule.n, w)
  IN  IF rule.as = "sum" THEN InLast(p[rule.of], T.at[rule.of], n)
      ELSE IF rule.n < w THEN InLast(p[rule.of], T.at[rule.of] - rule.n, 1) ELSE 0

\* The two sums of an average, of which the first is taken in its precision.
MarksSums(p, T, rule) ==
  LET n == IF rule.n = 0 THEN MarksWindow ELSE Lesser(rule.n, MarksWindow)
  IN  [num   |-> Precision * InLast(p.num, T.at.months, n),
       denom |-> InLast(p.denom, T.at.months, n)]

MarksTally(sums, rule) ==
  CASE rule.as = "count"     -> sums.denom
    [] rule.as = "skyverage" -> Quotient(sums.num, sums.denom + 1)
    [] rule.as = "average"   -> IF sums.denom = 0 THEN 0 ELSE Quotient(sums.num, sums.denom)

\* The score of a rule, unless what it sums up is no int.
EventsScored(f, p, T, rule) ==
  EventsTally(p, T, rule) \in Ints32 => Score("events", f, rule) = EventsTally(p, T, rule)

MarksScored(f, p, T, rule) ==
  LET sums == MarksSums(p, T, rule)
  IN  {sums.num, sums.denom, sums.denom + 1} \subseteq Ints32 =>
        Score("marks", f, rule) = MarksTally(sums, rule)

\* A score read now, by a top, a contest or a filter, is what was counted in
\* the hours, days or months its rule names, up to the present one, as long as the
\* sums are ints (FieldEvents::score, FieldMarks::score).
ScoresFollowTallies ==
  LET T == IF locks > 0 THEN timer ELSE Refreshed
  IN  ~beyond =>
        \A e \in Of({"events", "marks"}) :
          LET type == Type(e[2])
              f    == Update(type, field[e[1]][e[2]], T)
              p    == past[e[1]][e[2]]
          IN  ~Ahead(type, field[e[1]][e[2]], T) => \A r \in {s \in Rules(type) : s.of # "total"} :
                IF type = "events" THEN EventsScored(f, p, T, r) ELSE MarksScored(f, p, T, r)

\* Items and dates stay in pairs, and are the newest inserts in order: what
\* is kept is a beginning of all that was inserted and not inserted again
\* with unique, and the last insert is always there.
KeepsNewest(type) ==
  \A e \in Of({type}) :
    LET f == field[e[1]][e[2]]
        p == past[e[1]][e[2]]
    IN  /\ Count(f.items) = Count(f.dates)
        /\ Count(f.items) <= Len(p)
        /\ p # <<>> => Count(f.items) > 0
        /\ \A k \in 1 .. Count(f.items) :
              <<Sample(f.items, k - 1), Sample(f.dates, k - 1)>> = p[k]

\* FieldUlog::insert, add and del, with the dumps and restores.
UlogKeepsNewest == KeepsNewest("ulog")

\* The same of FieldLog, whose LOG_LEN is more than uint8_t count can count.
LogKeepsNewest == KeepsNewest("log")

\* Stopping and starting with the same fields changes nothing that any field
\* holds, unless a total is more than an int (dump, restore, restore_bin).
RestoreKeepsFields ==
  [][(restarts' # restarts /\ up' /\ [i \in DOMAIN defs |-> defs[i].type]
                                     = [i \in DOMAIN defs' |-> defs'[i].type]) =>
       \A u \in DOMAIN field : \A i \in DOMAIN defs :
         \/ field'[u][i] = field[u][i]
         \/ Type(i) = "events" /\ field[u][i].total > IntMax]_vars

\* In a report every user is counted with the same hour, day and month as
\* the present one, although time goes on and commands update fields while
\* the report walks the users: its index k is k periods before the moment
\* the thread locked the timer (Timer::lock, ReportFieldEvents::add).  It is
\* not so when a refresh() had already found the timer free at that moment.
ReportAligned ==
  (report.at = "scan" /\ Type(report.field) = "events" /\ ~report.raced /\ ~beyond) =>
    \A x \in Units :
      Tallies(report.result.vec[x], report.since[x], counted[x], Window[x])

\* While a report walks the users the time changes at most once, however many
\* commands come and however the clock goes: by the command that had found the
\* timer free before the report locked it and writes afterwards; from then on
\* the users are counted with the time it wrote (Timer::refresh tests
\* lock_count and writes update, now and the hour without a lock).
OneChangeUnderWalk ==
  [][report.at = "scan" /\ report'.at = "scan" /\ timer' # timer =>
       main.at = "command" /\ ~main.held /\ report.raced /\ timer.at = report.since]_vars

\* Within one process the hour, the day and the month of the timer and of a
\* field never go back, even if the clock of the host does (Timer::refresh,
\* which lets 10 seconds pass after the latest update it has seen).
TimeNeverGoesBack ==
  [][restarts' = restarts /\ beyond' = FALSE =>
       /\ \A x \in Units : timer'.at[x] >= timer.at[x]
       /\ \A e \in Of({"events"}) : \A x \in Units :
            LET f == field'[e[1]][e[2]]
            IN  f.date[x] # -1 => f.date[x] >= field[e[1]][e[2]].date[x]]_vars
=============================================================================
