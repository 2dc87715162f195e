-------------------------------- MODULE Field --------------------------------
(***************************************************************************)
(* The seven kinds of field a user can have (field.cc), as operators: what *)
(* a field holds, what a command makes of it, and what it scores.  The     *)
(* state machine that applies them is Fields.                              *)
(***************************************************************************)
EXTENDS StatsVector, Timer, FiniteSets

CONSTANTS
  Window,       \* Window[x]: EVENTS_HOURS_LEN, EVENTS_DAYS_LEN, EVENTS_MONTHS_LEN
  MarksWindow,  \* MARKS_MONTHS_LEN
  LogWindow,    \* LogWindow[t]: ULOG_LEN, LOG_LEN
  Precision     \* 1000, the scale of the averages of marks

Logs  == {"ulog", "log"}
Ints  == {"int", "uint"}
Types == {"events", "marks", "timestamp"} \cup Logs \cup Ints

\* LOG_LEN is the one length that uint8_t count cannot count.
ASSUME WindowsAssumption ==
  /\ Window \in [Units -> 1 .. Counts - 1]
  /\ MarksWindow \in 1 .. Counts - 1
  /\ LogWindow \in [Logs -> Nat \ {0}]
  /\ LogWindow["ulog"] < Counts
  /\ Precision \in Nat \ {0}

NewEvents ==
  [vec   |-> [x \in Units |-> Empty(IF x = "months" THEN 2 ELSE 1)],
   date  |-> [x \in Units |-> -1],
   total |-> 0,
   last  |-> 0]

NewMarks == [num |-> Empty(1), denom |-> Empty(1), month |-> -1]
NewLog   == [items |-> Empty(4), dates |-> Empty(8)]

New(type) ==
  CASE type = "events" -> NewEvents
    [] type = "marks"  -> NewMarks
    [] type \in Logs   -> NewLog
    [] OTHER           -> 0

-----------------------------------------------------------------------------
\* update(): as many new samples as periods have begun since date, which is
\* -1 before the first update.  date follows the timer even when it goes back.

Elapsed(t, date) == IF date = -1 THEN 0 ELSE Greater(0, t - date)

UpdateEvents(f, at) ==
  [f EXCEPT !.vec  = [x \in Units |->
                        LET n == Elapsed(at[x], f.date[x])
                        IN  IF n = 0 THEN @[x] ELSE Translate(@[x], n, Window[x])],
            !.date = at]

UpdateMarks(f, at) ==
  LET n == Elapsed(at.months, f.month)
      Shift(v) == IF n = 0 THEN v ELSE Translate(v, n, MarksWindow)
  IN  [num |-> Shift(f.num), denom |-> Shift(f.denom), month |-> at.months]

Update(type, f, T) ==
  CASE type = "events" -> UpdateEvents(f, T.at)
    [] type = "marks"  -> UpdateMarks(f, T.at)
    [] OTHER           -> f

-----------------------------------------------------------------------------
\* add <n>

AddEvents(f, n, T) ==
  LET g == UpdateEvents(f, T.at)
  IN  [g EXCEPT !.total = Greater(0, ToInt(@ + n)),
                !.vec   = [x \in Units |-> IncOrExpand(@[x], n, TRUE)],
                !.last  = T.now]

AddMarks(f, n, T) ==
  LET g == UpdateMarks(f, T.at)
  IN  [g EXCEPT !.num   = IncOrExpand(@, n, FALSE),
                !.denom = IncOrExpand(@, 1, TRUE)]

SetInt(type, n) == IF type = "uint" /\ n < 0 THEN 0 ELSE n

\* translate(1) makes the place that set_sample(0) fills, in both vectors.
Insert(type, f, n, date) ==
  LET Push(v, x) == SetSample(Translate(v, 1, LogWindow[type]), 0, x, TRUE)
  IN  [items |-> Push(f.items, n), dates |-> Push(f.dates, date)]

\* Mutant: an item is deleted, its date is left.
MutLogDelete(f, n) ==
  LET pos == Find(f.items, n, TRUE)
  IN  IF n = -1 THEN f ELSE [f EXCEPT !.items = Delete(f.items, pos)]

\* del(n): the test of the code is on n, not on the position found.
LogDelete(f, n) ==
  LET pos == Find(f.items, n, TRUE)
  IN  IF n = -1 THEN f
      ELSE [items |-> Delete(f.items, pos), dates |-> Delete(f.dates, pos)]

Add(type, f, n, T) ==
  CASE type = "events"    -> AddEvents(f, n, T)
    [] type = "marks"     -> AddMarks(f, n, T)
    [] type = "timestamp" -> T.now
    [] type \in Ints      -> SetInt(type, ToInt(f + n))
    [] type \in Logs      -> Insert(type, f, n, T.now)

\* set <value>: events and marks refuse it, logs accept it and keep nothing.
Set(type, f, n) ==
  CASE type \in Ints      -> SetInt(type, n)
    [] type = "timestamp" -> n
    [] OTHER              -> f

\* clear() keeps the width of the samples.
ClearEvents(f) ==
  [NewEvents EXCEPT !.vec = [x \in Units |-> Empty(f.vec[x].width)]]

ClearMarks(f) ==
  [NewMarks EXCEPT !.num.width = f.num.width, !.denom.width = f.denom.width]

Clear(type, f) ==
  CASE type = "events" -> ClearEvents(f)
    [] type = "marks"  -> ClearMarks(f)
    [] OTHER           -> New(type)

-----------------------------------------------------------------------------
\* The score rules.  What they take of a unit: the sum of the n newest
\* samples (of all of them if n is 0), or one sample.

Lasts == [x \in Units |-> CASE x = "hours"  -> {0, 2, 3, 6, 12}
                             [] x = "days"   -> {0, 2, 7, 15}
                             [] x = "months" -> {0, 2, 3, 6}]

EventsRules ==
  (UNION {[of : {x}, as : {"sum"}, n : Lasts[x]] : x \in Units})
    \cup [of : Units, as : {"sample"}, n : {0, 1}]
    \cup {[of |-> "total", as |-> "sum", n |-> 0]}

MarksRules ==
  [of : {"months"}, as : {"average", "skyverage", "count"}, n : {0, 1, 2, 3, 6}]

Rules(type) ==
  CASE type = "events" -> EventsRules
    [] type = "marks"  -> MarksRules
    [] OTHER           -> {[of |-> "value", as |-> "value", n |-> 0]}

\* Division of C++, which rounds towards zero; b is positive.
Quotient(a, b) == IF a >= 0 THEN a \div b ELSE -((-a) \div b)

\* Mutant: the score of the nth hour, day or month is the sum of all up to it.
MutEventsScore(f, rule) ==
  CASE rule.of = "total" -> ToInt(f.total)
    [] rule.of # "total" /\ rule.as = "sum"    -> Sum(f.vec[rule.of], rule.n)
    [] rule.of # "total" /\ rule.as = "sample" -> Sum(f.vec[rule.of], rule.n + 1)

EventsScore(f, rule) ==
  CASE rule.of = "total"    -> ToInt(f.total)
    [] rule.of # "total" /\ rule.as = "sum"    -> Sum(f.vec[rule.of], rule.n)
    [] rule.of # "total" /\ rule.as = "sample" -> Sample(f.vec[rule.of], rule.n)

\* The products and the sum are ints of C++.
MarksScore(f, rule) ==
  LET num   == ToInt(Sum(f.num, rule.n) * Precision)
      denom == Sum(f.denom, rule.n)
  IN  CASE rule.as = "count"     -> denom
        [] rule.as = "skyverage" -> Quotient(num, ToInt(denom + 1))
        [] rule.as = "average"   -> IF denom # 0 THEN Quotient(num, denom) ELSE 0

\* score() updates the field first; Score is what it then returns, -1 for a
\* rule that the type does not have.
Score(type, f, rule) ==
  CASE rule \notin Rules(type) -> -1
    [] rule \in Rules(type) /\ type = "events" -> EventsScore(f, rule)
    [] rule \in Rules(type) /\ type = "marks"  -> MarksScore(f, rule)
    [] rule \in Rules(type) /\ type \in Logs   -> Count(f.items)
    [] OTHER -> f

-----------------------------------------------------------------------------
\* dump and restore, as text and as binary.

\* Mutant: restore reads the total in the place of last.
MutTextEvents(f) ==
  [f EXCEPT !.vec  = [x \in Units |-> TextVector(@[x], Window[x], TRUE)],
            !.last = f.total]

TextEvents(f) ==
  [f EXCEPT !.vec   = [x \in Units |-> TextVector(@[x], Window[x], TRUE)],
            !.total = TextInt(@),
            !.last  = TextInt(@)]

BinaryEvents(f) ==
  [f EXCEPT !.vec = [x \in Units |-> BinaryVector(@[x], Window[x])]]

TextMarks(f) ==
  [f EXCEPT !.num   = TextVector(@, MarksWindow, FALSE),
            !.denom = TextVector(@, MarksWindow, TRUE)]

BinaryMarks(f) ==
  [f EXCEPT !.num   = BinaryVector(@, MarksWindow),
            !.denom = BinaryVector(@, MarksWindow)]

TextLog(type, f) ==
  [items |-> TextVector(f.items, LogWindow[type], TRUE),
   dates |-> TextVector(f.dates, LogWindow[type], TRUE)]

BinaryLog(type, f) ==
  [items |-> BinaryVector(f.items, LogWindow[type]),
   dates |-> BinaryVector(f.dates, LogWindow[type])]

TextField(type, f) ==
  CASE type = "events" -> TextEvents(f)
    [] type = "marks"  -> TextMarks(f)
    [] type \in Logs   -> TextLog(type, f)
    [] OTHER           -> TextInt(f)

BinaryField(type, f) ==
  CASE type = "events" -> BinaryEvents(f)
    [] type = "marks"  -> BinaryMarks(f)
    [] type \in Logs   -> BinaryLog(type, f)
    [] OTHER           -> f

-----------------------------------------------------------------------------
\* ReportFieldEvents and ReportFieldInt: only those two types have a report,
\* and FieldInt stands for uint as well.

Reported == {"events"} \cup Ints

NewReport ==
  [count  |-> 0,
   total  |-> 0,
   vec    |-> [x \in Units |-> Empty(8)],
   active |-> [x \in Units |-> Empty(4)]]

\* The field has been updated.
ReportEvents(r, f) ==
  [count  |-> r.count + 1,
   total  |-> r.total + f.total,
   vec    |-> [x \in Units |-> AddVector(r.vec[x], f.vec[x])],
   active |-> [x \in Units |-> CountActive(r.active[x], f.vec[x])]]

ReportInt(r, f) == [r EXCEPT !.count = @ + 1, !.total = @ + f]

ReportAdd(r, type, f) ==
  IF type = "events" THEN ReportEvents(r, f) ELSE ReportInt(r, f)
=============================================================================
