----------------------------- MODULE FieldsProofs -----------------------------
(***************************************************************************)
(* What the fields hold, for any widths of integers, windows, calendars,   *)
(* tables of fields, users, commands and clocks: the fields have the types *)
(* of the table; their time does not go back; a restart from a dump keeps  *)
(* them; the items of a log are the newest ones inserted; and the samples  *)
(* of events, of marks and of a report tally what came in their periods.   *)
(***************************************************************************)
EXTENDS Fields, SequenceTheorems, WellFoundedInduction, TLAPS

-----------------------------------------------------------------------------
\* Numbers: division, the widths of integers and their conversions.

\* A quotient is no more than what is divided.
LEMMA QuotientRange ==
  ASSUME NEW h \in Nat \ {0}, NEW x \in Nat
  PROVE  x \div h \in 0 .. x
OBVIOUS

\* ... and grows with it.
LEMMA QuotientGrows ==
  ASSUME NEW h \in Nat \ {0}, NEW x \in Nat, NEW y \in Nat, x <= y
  PROVE  x \div h <= y \div h
OBVIOUS

\* A remainder is less than the divisor.
LEMMA RemainderRange ==
  ASSUME NEW V \in Nat \ {0}, NEW x \in Int
  PROVE  x % V \in 0 .. V - 1
OBVIOUS

\* A number less than the divisor is its own remainder,
LEMMA RemainderSame ==
  ASSUME NEW V \in Nat \ {0}, NEW x \in 0 .. V - 1
  PROVE  x % V = x
OBVIOUS

\* one that is too great by less than the divisor loses it once,
LEMMA RemainderAbove ==
  ASSUME NEW V \in Nat \ {0}, NEW x \in V .. 2 * V - 1
  PROVE  x % V = x - V
OBVIOUS

\* and a negative one gets it once.
LEMMA RemainderBelow ==
  ASSUME NEW V \in Nat \ {0}, NEW x \in -V .. -1
  PROVE  x % V = x + V
OBVIOUS

\* An even number is twice its half.
LEMMA Halves ==
  ASSUME NEW V \in Nat \ {0}, V % 2 = 0
  PROVE  V \div 2 \in Nat \ {0} /\ V = 2 * (V \div 2)
OBVIOUS

\* The widths: each integer has at least four times the values of the next
\* smaller one.
LEMMA WidthFacts ==
  /\ \A w \in Widths : /\ Values[w] \in Nat \ {0}
                       /\ Half(w) \in Nat \ {0}
                       /\ Values[w] = 2 * Half(w)
  /\ Half(2) >= 4 * Half(1) /\ Half(4) >= 4 * Half(2) /\ Half(8) >= 4 * Half(4)
  /\ IntMax = Half(4) - 1
<1>1. \A w \in Widths : /\ Values[w] \in Nat \ {0}
                        /\ Half(w) \in Nat \ {0}
                        /\ Values[w] = 2 * Half(w)
  BY ValuesAssumption, Halves DEF Half
<1>2. Values[2] >= 4 * Values[1] /\ Values[4] >= 4 * Values[2] /\ Values[8] >= 4 * Values[4]
  <2>1. \A w \in {1, 2, 4} : Values[2 * w] >= 4 * Values[w]
    BY ValuesAssumption DEF Widths
  <2>2. Values[2 * 1] >= 4 * Values[1] /\ Values[2 * 2] >= 4 * Values[2]
          /\ Values[2 * 4] >= 4 * Values[4]
    BY <2>1
  <2>3. 2 * 1 = 2 /\ 2 * 2 = 4 /\ 2 * 4 = 8
    OBVIOUS
  <2> QED
    BY <2>2, <2>3
<1>3. {1, 2, 4, 8} \subseteq Widths
  BY DEF Widths
<1> QED
  BY <1>1, <1>2, <1>3 DEF IntMax

\* The samples of a width: those of the dates are times, which are ints.
Samples(w, unsigned) ==
  IF w = 8 THEN 0 .. IntMax
  ELSE IF unsigned THEN 0 .. Values[w] - 1
  ELSE -Half(w) .. Half(w) - 1

\* Samples are integers.
LEMMA SamplesInt ==
  ASSUME NEW w \in Widths, NEW u \in BOOLEAN
  PROVE  Samples(w, u) \subseteq Int
BY WidthFacts DEF Samples, Widths

\* The conversion to a width gives a sample of the width,
LEMMA CastRange ==
  ASSUME NEW w \in Widths \ {8}, NEW x \in Int, NEW u \in BOOLEAN
  PROVE  Cast(x, w, u) \in Samples(w, u)
<1>1. Values[w] \in Nat \ {0} /\ Half(w) \in Nat \ {0} /\ Values[w] = 2 * Half(w)
  BY WidthFacts
<1>2. CASE u
  BY <1>1, <1>2, RemainderRange DEF Cast, Samples
<1>3. CASE ~u
  <2>1. x + Half(w) \in Int
    BY <1>1
  <2>2. (x + Half(w)) % Values[w] \in 0 .. Values[w] - 1
    BY <1>1, <2>1, RemainderRange
  <2> QED
    BY <1>1, <1>3, <2>2 DEF Cast, Samples
<1> QED
  BY <1>2, <1>3

\* and leaves a sample of the width alone.
LEMMA CastSame ==
  ASSUME NEW w \in Widths, NEW u \in BOOLEAN, w = 8 => u, NEW x \in Samples(w, u)
  PROVE  Cast(x, w, u) = x
<1>1. Values[w] \in Nat \ {0} /\ Half(w) \in Nat \ {0} /\ Values[w] = 2 * Half(w)
  BY WidthFacts
<1>2. CASE u
  <2>1. x \in 0 .. Values[w] - 1
    <3>1. CASE w = 8
      BY <3>1, <1>2, WidthFacts DEF Samples, Widths
    <3>2. CASE w # 8
      BY <3>2, <1>2 DEF Samples
    <3> QED
      BY <3>1, <3>2
  <2> QED
    BY <1>1, <1>2, <2>1, RemainderSame DEF Cast
<1>3. CASE ~u
  <2>1. x \in -Half(w) .. Half(w) - 1
    BY <1>3 DEF Samples
  <2>2. x + Half(w) \in 0 .. Values[w] - 1
    BY <1>1, <2>1
  <2>3. (x + Half(w)) % Values[w] = x + Half(w)
    BY <1>1, <2>2, RemainderSame
  <2> QED
    BY <1>1, <1>3, <2>1, <2>3 DEF Cast
<1> QED
  BY <1>2, <1>3

\* So an int is itself.
LEMMA ToIntSame ==
  ASSUME NEW x \in Ints32
  PROVE  ToInt(x) = x
<1>1. 4 \in Widths /\ 4 # 8 /\ x \in Samples(4, FALSE)
  BY WidthFacts DEF Samples, Widths, Ints32
<1>2. Cast(x, 4, FALSE) = x
  BY <1>1, CastSame, Zenon
<1> QED
  BY <1>2 DEF ToInt

\* Everything that is converted to an int is one.
LEMMA ToIntRange ==
  ASSUME NEW x \in Int
  PROVE  ToInt(x) \in Ints32
<1>1. 4 \in Widths \ {8}
  BY DEF Widths
<1>2. Cast(x, 4, FALSE) \in Samples(4, FALSE)
  BY <1>1, CastRange
<1> QED
  BY <1>1, <1>2, WidthFacts DEF Samples, ToInt, Ints32

\* A sample comes back from the int that shows it.
LEMMA CastBack ==
  ASSUME NEW w \in Widths, NEW u \in BOOLEAN, w = 8 => u, NEW x \in Samples(w, u)
  PROVE  Cast(ToInt(x), w, u) = x
<1>1. Values[w] \in Nat \ {0} /\ Half(w) \in Nat \ {0} /\ Values[w] = 2 * Half(w)
  BY WidthFacts
<1>2. CASE x \in Ints32
  BY <1>2, ToIntSame, CastSame
<1>3. CASE x \notin Ints32
  <2>1. w = 4 /\ u /\ x \in Half(4) .. Values[4] - 1
    BY <1>1, <1>3, WidthFacts DEF Samples, Widths, Ints32
  <2>2. x + Half(4) \in Values[4] .. 2 * Values[4] - 1
    BY <1>1, <2>1
  <2>3. (x + Half(4)) % Values[4] = x + Half(4) - Values[4]
    BY <1>1, <2>1, <2>2, RemainderAbove
  <2>4. ToInt(x) = x - Values[4]
    BY <1>1, <2>1, <2>3 DEF ToInt, Cast
  <2>5. x - Values[4] \in -Values[4] .. -1
    BY <1>1, <2>1
  <2>6. (x - Values[4]) % Values[4] = x
    BY <1>1, <2>1, <2>5, RemainderBelow
  <2> QED
    BY <2>1, <2>4, <2>6 DEF Cast
<1> QED
  BY <1>2, <1>3

\* The text of what an int shows is read back as it was.
LEMMA TextIntSame ==
  ASSUME NEW x \in Int
  PROVE  TextInt(ToInt(x)) = ToInt(x)
BY ToIntRange, WidthFacts DEF TextInt, Lesser, Ints32

-----------------------------------------------------------------------------
\* The time.

\* The calendar of a time of the clock is made of periods,
LEMMA CalendarType ==
  ASSUME NEW t \in Periods
  PROVE  Calendar(t) \in [Units -> Periods]
<1> DEFINE hour == t \div HourTicks
           day  == hour \div HoursPerDay
           month == day \div DaysPerMonth
<1>1. t \in Nat /\ {HourTicks, HoursPerDay, DaysPerMonth} \subseteq Nat \ {0} /\ MaxClock \in Nat
  BY TimerAssumption DEF Periods
<1>2. hour \in 0 .. t
  BY <1>1, QuotientRange
<1>3. day \in 0 .. hour
  BY <1>1, <1>2, QuotientRange
<1>4. month \in 0 .. day
  BY <1>1, <1>2, <1>3, QuotientRange
<1>5. hour \in Periods /\ day \in Periods /\ month \in Periods
  BY <1>1, <1>2, <1>3, <1>4 DEF Periods
<1> QED
  BY <1>5 DEF Calendar, Units

\* which do not go back when time goes on.
LEMMA CalendarGrows ==
  ASSUME NEW s \in Periods, NEW t \in Periods, s <= t
  PROVE  \A x \in Units : Calendar(s)[x] <= Calendar(t)[x]
<1> DEFINE hour(y) == y \div HourTicks
           day(y) == hour(y) \div HoursPerDay
           month(y) == day(y) \div DaysPerMonth
<1>1. /\ s \in Nat /\ t \in Nat
      /\ {HourTicks, HoursPerDay, DaysPerMonth} \subseteq Nat \ {0}
  BY TimerAssumption DEF Periods
<1>2. hour(s) \in Nat /\ hour(t) \in Nat /\ hour(s) <= hour(t)
  BY <1>1, QuotientRange, QuotientGrows
<1>3. day(s) \in Nat /\ day(t) \in Nat /\ day(s) <= day(t)
  BY <1>1, <1>2, QuotientRange, QuotientGrows
<1>4. month(s) <= month(t)
  BY <1>1, <1>3, QuotientGrows
<1> QED
  BY <1>2, <1>3, <1>4 DEF Calendar, Units

\* What a timer shows is the calendar of the time it was taken at, or
\* nothing yet,
IsTimer(T) ==
  /\ T \in [update : Int, now : Periods, at : [Units -> Periods]]
  /\ \/ T.update = -Lag /\ T.at = [x \in Units |-> 0]
     \/ T.update \in Periods /\ T.at = Calendar(T.update)

TimerOK ==
  /\ clock \in Periods /\ back \in 0 .. MaxBack
  /\ IsTimer(timer)

\* and a refresh takes no time that is earlier.
LEMMA RefreshedOK ==
  ASSUME TimerOK
  PROVE  IsTimer(Refreshed) /\ \A x \in Units : Refreshed.at[x] >= timer.at[x]
<1>1. Lag \in Nat \ {0} /\ MaxClock \in Nat /\ clock \in Nat /\ Periods \subseteq Nat
  BY TimerAssumption DEF Periods, TimerOK, IsTimer
<1>2. CASE clock - timer.update < Lag
  BY <1>1, <1>2 DEF TimerOK, IsTimer, Refreshed
<1>3. CASE ~(clock - timer.update < Lag)
  <2>1. Refreshed = [update |-> clock, now |-> clock, at |-> Calendar(clock)]
    BY <1>3 DEF Refreshed
  <2>2. clock \in Periods /\ Calendar(clock) \in [Units -> Periods]
    BY CalendarType DEF TimerOK
  <2>3. IsTimer(Refreshed)
    BY <1>1, <2>1, <2>2 DEF IsTimer
  <2>4. CASE timer.update = -Lag /\ timer.at = [x \in Units |-> 0]
    <3>1. \A x \in Units : Calendar(clock)[x] \in Nat /\ timer.at[x] = 0
      BY <1>1, <2>2, <2>4
    <3> QED
      BY <2>1, <2>3, <3>1
  <2>5. CASE timer.update \in Periods /\ timer.at = Calendar(timer.update)
    <3>1. timer.update \in Nat
      BY <1>1, <2>5
    <3>2. timer.update <= clock
      BY <1>1, <1>3, <3>1
    <3> QED
      BY <1>1, <2>1, <2>2, <2>3, <2>5, <3>2, CalendarGrows, CalendarType
  <2> QED
    BY <2>3, <2>4, <2>5 DEF TimerOK, IsTimer
<1> QED
  BY <1>2, <1>3

-----------------------------------------------------------------------------
\* Vectors.

\* The vectors of a field: samples of the widths W, no more of them than len
\* nor than count can count, each one a value of its width.
VecOK(v, W, len, unsigned) ==
  /\ v \in Vectors
  /\ v.width \in W
  /\ Count(v) <= len /\ Count(v) < Counts
  /\ \A i \in 1 .. Count(v) : v.samples[i] \in Samples(v.width, unsigned)

\* A vector is made empty.
LEMMA EmptyOK ==
  ASSUME NEW W \in SUBSET Widths, NEW w \in W, NEW len \in Nat, NEW u \in BOOLEAN
  PROVE  VecOK(Empty(w), W, len, u) /\ Empty(w).samples = <<>> /\ Empty(w).width = w
<1>1. Counts \in Nat \ {0, 1}
  BY ValuesAssumption
<1>2. <<>> \in Seq(Int) /\ Len(<<>>) = 0
  OBVIOUS
<1>3. Empty(w) = [width |-> w, samples |-> <<>>]
  BY DEF Empty
<1> QED
  BY <1>1, <1>2, <1>3 DEF VecOK, Vectors, Count

\* Zeros(n) has n zeros.
LEMMA ZerosShape ==
  ASSUME NEW n \in Nat
  PROVE  Zeros(n) \in Seq(Int) /\ Len(Zeros(n)) = n /\ \A i \in 1 .. n : Zeros(n)[i] = 0
BY DEF Zeros

\* n new periods come before the samples, those of the oldest are dropped.
LEMMA TranslateShape ==
  ASSUME NEW v \in Vectors, NEW n \in Nat, NEW len \in Nat
  PROVE  LET t == Translate(v, n, len)
             delta == Lesser(n, len)
         IN  /\ t \in Vectors /\ t.width = v.width
             /\ Count(t) = Lesser(Count(v) + delta, len) % Counts
             /\ Count(t) <= Lesser(Count(v) + delta, len) /\ Count(t) < Counts
             /\ \A i \in 1 .. Count(t) :
                  t.samples[i] = IF i <= delta THEN 0 ELSE v.samples[i - delta]
             /\ \A i \in 1 .. Count(t) : i > delta => i - delta \in 1 .. Count(v)
<1> DEFINE delta == Lesser(n, len)
           m     == Lesser(Count(v), len - delta)
           moved == SubSeq(v.samples, 1, m)
           most  == Lesser(Count(v) + delta, len)
           count == most % Counts
           all   == Zeros(delta) \o moved
           kept  == SubSeq(all, 1, count)
           t     == Translate(v, n, len)
<1>1. Counts \in Nat \ {0, 1}
  BY ValuesAssumption
<1>2. v.samples \in Seq(Int) /\ Count(v) \in Nat /\ Count(v) = Len(v.samples)
  BY DEF Vectors, Count
<1>3. delta \in Nat /\ delta <= len /\ m \in Nat /\ m <= Count(v) /\ most = delta + m
  <2>1. delta \in Nat /\ delta <= len
    BY DEF Lesser
  <2>2. m = IF Count(v) <= len - delta THEN Count(v) ELSE len - delta
    BY DEF Lesser
  <2>3. most = IF Count(v) + delta <= len THEN Count(v) + delta ELSE len
    BY DEF Lesser
  <2> HIDE DEF delta, m, most
  <2> QED
    BY <1>2, <2>1, <2>2, <2>3
<1>4. count \in 0 .. Counts - 1 /\ count \in 0 .. most
  BY <1>1, <1>3
<1>5. /\ moved \in Seq(Int) /\ Len(moved) = m
      /\ \A i \in 1 .. m : moved[i] = v.samples[i]
  BY <1>2, <1>3, SubSeqProperties
<1>6. /\ Zeros(delta) \in Seq(Int) /\ Len(Zeros(delta)) = delta
      /\ \A i \in 1 .. delta : Zeros(delta)[i] = 0
  BY <1>3, ZerosShape
<1>7. /\ all \in Seq(Int) /\ Len(all) = most
      /\ \A i \in 1 .. most : all[i] = IF i <= delta THEN 0 ELSE v.samples[i - delta]
  <2> HIDE DEF moved, m, delta, most
  <2>1. /\ all \in Seq(Int) /\ Len(all) = delta + m
        /\ \A i \in 1 .. delta + m : all[i] = IF i <= delta THEN Zeros(delta)[i]
                                               ELSE moved[i - delta]
    <3>1. /\ all \in Seq(Int) /\ Len(all) = Len(Zeros(delta)) + Len(moved)
          /\ \A i \in 1 .. Len(Zeros(delta)) + Len(moved) :
               all[i] = IF i <= Len(Zeros(delta)) THEN Zeros(delta)[i]
                        ELSE moved[i - Len(Zeros(delta))]
      BY <1>5, <1>6, ConcatProperties, Zenon
    <3> QED
      BY <1>5, <1>6, <3>1
  <2>2. ASSUME NEW i \in 1 .. most
        PROVE  all[i] = IF i <= delta THEN 0 ELSE v.samples[i - delta]
    <3>1. i \in Int /\ i >= 1 /\ i <= delta + m
      BY <1>3
    <3>2. CASE i <= delta
      BY <1>3, <1>6, <2>1, <3>1, <3>2
    <3>3. CASE ~(i <= delta)
      <4>1. i - delta \in 1 .. m
        BY <1>3, <3>1, <3>3
      <4> QED
        BY <1>3, <1>5, <2>1, <3>1, <3>3, <4>1
    <3> QED
      BY <3>2, <3>3
  <2> QED
    BY <1>3, <2>1, <2>2
<1>8. /\ kept \in Seq(Int) /\ Len(kept) = count
      /\ \A i \in 1 .. count : kept[i] = all[i]
  <2> HIDE DEF all, count, most
  <2> QED
    BY <1>4, <1>7, SubSeqProperties
<1>9. t = [v EXCEPT !.samples = kept]
  BY DEF Translate
<1> HIDE DEF t, kept, all, count, most, moved, m, delta
<1>10. t \in Vectors /\ t.width = v.width /\ t.samples = kept
  BY <1>8, <1>9 DEF Vectors
<1>11. Count(t) = count
  BY <1>8, <1>10 DEF Count
<1>12. \A i \in 1 .. count : i > delta => i - delta \in 1 .. Count(v)
  BY <1>2, <1>3, <1>4
<1>13. \A i \in 1 .. count : t.samples[i] = IF i <= delta THEN 0 ELSE v.samples[i - delta]
  BY <1>3, <1>4, <1>7, <1>8, <1>10
<1> QED
  BY <1>1, <1>3, <1>4, <1>10, <1>11, <1>12, <1>13 DEF t, count, most, delta

\* No time has gone by in a new sample.
LEMMA ZeroSample ==
  ASSUME NEW w \in Widths, NEW u \in BOOLEAN
  PROVE  0 \in Samples(w, u)
BY WidthFacts DEF Samples, Widths

\* So a vector is moved,
LEMMA TranslateOK ==
  ASSUME NEW W, NEW len \in Nat, NEW u \in BOOLEAN, NEW v, VecOK(v, W, len, u), NEW n \in Nat
  PROVE  VecOK(Translate(v, n, len), W, len, u)
<1> DEFINE t == Translate(v, n, len)
           delta == Lesser(n, len)
<1>1. v \in Vectors /\ v.width \in W /\ v.width \in Widths
  BY DEF VecOK, Vectors
<1>2. /\ t \in Vectors /\ t.width = v.width
      /\ Count(t) <= Lesser(Count(v) + delta, len) /\ Count(t) < Counts
      /\ \A i \in 1 .. Count(t) : t.samples[i] = IF i <= delta THEN 0 ELSE v.samples[i - delta]
      /\ \A i \in 1 .. Count(t) : i > delta => i - delta \in 1 .. Count(v)
  BY <1>1, TranslateShape
<1>3. Count(v) \in Nat /\ Count(t) \in Nat /\ delta \in Nat
  BY <1>1, <1>2 DEF Vectors, Count, Lesser
<1>4. Count(t) <= len
  BY <1>2, <1>3 DEF Lesser
<1>5. 0 \in Samples(v.width, u)
  BY <1>1, ZeroSample
<1>6. \A i \in 1 .. Count(v) : v.samples[i] \in Samples(v.width, u)
  BY DEF VecOK
<1> HIDE DEF t, delta
<1>7. \A i \in 1 .. Count(t) : t.samples[i] \in Samples(t.width, u)
  BY <1>2, <1>3, <1>5, <1>6
<1> QED
  BY <1>1, <1>2, <1>4, <1>7 DEF VecOK, t

\* an item is pushed in front of one,
LEMMA PushShape ==
  ASSUME NEW v \in Vectors, NEW len \in Nat \ {0}, NEW x \in Int
  PROVE  LET r == SetSample(Translate(v, 1, len), 0, x, TRUE)
         IN  /\ r \in Vectors /\ r.width = v.width
             /\ Count(r) = Lesser(Count(v) + 1, len) % Counts
             /\ Count(r) <= Lesser(Count(v) + 1, len) /\ Count(r) < Counts
             /\ \A i \in 1 .. Count(r) :
                  r.samples[i] = IF i = 1 THEN Cast(x, v.width, TRUE) ELSE v.samples[i - 1]
             /\ \A i \in 1 .. Count(r) : i # 1 => i - 1 \in 1 .. Count(v)
<1> DEFINE t == Translate(v, 1, len)
           r == SetSample(t, 0, x, TRUE)
           y == Cast(x, v.width, TRUE)
<1>1. Lesser(1, len) = 1
  BY DEF Lesser
<1>2. /\ t \in Vectors /\ t.width = v.width
      /\ Count(t) = Lesser(Count(v) + 1, len) % Counts
      /\ Count(t) <= Lesser(Count(v) + 1, len) /\ Count(t) < Counts
      /\ \A i \in 1 .. Count(t) : t.samples[i] = IF i <= 1 THEN 0 ELSE v.samples[i - 1]
      /\ \A i \in 1 .. Count(t) : i > 1 => i - 1 \in 1 .. Count(v)
  <2> DEFINE delta == Lesser(1, len)
  <2>1. 1 \in Nat /\ len \in Nat
    OBVIOUS
  <2>2. /\ t \in Vectors /\ t.width = v.width
        /\ Count(t) = Lesser(Count(v) + delta, len) % Counts
        /\ Count(t) <= Lesser(Count(v) + delta, len) /\ Count(t) < Counts
        /\ \A i \in 1 .. Count(t) :
             t.samples[i] = IF i <= delta THEN 0 ELSE v.samples[i - delta]
        /\ \A i \in 1 .. Count(t) : i > delta => i - delta \in 1 .. Count(v)
    BY <2>1, TranslateShape
  <2> HIDE DEF t
  <2> QED
    BY <1>1, <2>2
<1>3. y \in Int
  <2>1. v.width \in Widths /\ Values[v.width] \in Nat \ {0}
    BY WidthFacts DEF Vectors
  <2> QED
    BY <2>1, RemainderRange DEF Cast
<1> HIDE DEF t, y
<1>4. t.samples \in Seq(Int) /\ Count(t) = Len(t.samples) /\ Count(t) \in Nat
  BY <1>2 DEF Vectors, Count
<1> SUFFICES /\ r \in Vectors /\ r.width = v.width /\ Count(r) = Count(t)
             /\ \A i \in 1 .. Count(t) : r.samples[i] = IF i = 1 THEN y ELSE v.samples[i - 1]
  <2> HIDE DEF r
  <2>1. \A i \in 1 .. Count(t) : i # 1 => i - 1 \in 1 .. Count(v)
    BY <1>2, <1>4
  <2> QED
    BY <1>2, <2>1 DEF r, t, y
<1>5. CASE Count(t) = 0
  <2>1. r = t
    BY <1>4, <1>5 DEF SetSample
  <2> HIDE DEF r
  <2> QED
    BY <1>2, <1>5, <2>1
<1>6. CASE Count(t) # 0
  <2>1. r = [t EXCEPT !.samples[1] = y]
    BY <1>2, <1>4, <1>6 DEF SetSample, y
  <2> HIDE DEF r
  <2>2. r.samples = [t.samples EXCEPT ![1] = y] /\ r.width = v.width
    BY <1>2, <2>1 DEF Vectors
  <2>3. 1 \in 1 .. Len(t.samples)
    BY <1>4, <1>6
  <2>4. r.samples \in Seq(Int) /\ Len(r.samples) = Len(t.samples)
    BY <1>3, <1>4, <2>2, <2>3, ExceptSeq
  <2>5. r \in Vectors
    BY <1>2, <2>1, <2>4 DEF Vectors
  <2>6. Count(r) = Count(t)
    BY <1>4, <2>4 DEF Count
  <2>7. \A i \in 1 .. Count(r) : r.samples[i] = IF i = 1 THEN y ELSE v.samples[i - 1]
    BY <1>2, <1>4, <2>2, <2>6
  <2> QED
    BY <2>2, <2>5, <2>6, <2>7
<1> QED
  BY <1>5, <1>6

\* an element is taken out of a sequence,
LEMMA RemoveAtShape ==
  ASSUME NEW S, NEW q \in Seq(S), NEW k \in 1 .. Len(q)
  PROVE  /\ RemoveAt(q, k) \in Seq(S) /\ Len(RemoveAt(q, k)) = Len(q) - 1
         /\ \A i \in 1 .. Len(q) - 1 : RemoveAt(q, k)[i] = IF i < k THEN q[i] ELSE q[i + 1]
<1> DEFINE a == SubSeq(q, 1, k - 1)
           b == SubSeq(q, k + 1, Len(q))
           r == RemoveAt(q, k)
<1>1. k \in Nat /\ Len(q) \in Nat /\ 1 <= k /\ k <= Len(q)
  OBVIOUS
<1>2. a \in Seq(S) /\ Len(a) = k - 1 /\ \A i \in 1 .. k - 1 : a[i] = q[i]
  BY <1>1, SubSeqProperties
<1>3. b \in Seq(S) /\ Len(b) = Len(q) - k /\ \A i \in 1 .. Len(q) - k : b[i] = q[i + k]
  BY <1>1, SubSeqProperties
<1>4. r = a \o b
  BY DEF RemoveAt
<1> HIDE DEF a, b, r
<1>5. /\ r \in Seq(S) /\ Len(r) = Len(a) + Len(b)
      /\ \A i \in 1 .. Len(a) + Len(b) : r[i] = IF i <= Len(a) THEN a[i] ELSE b[i - Len(a)]
  <2>1. /\ a \o b \in Seq(S) /\ Len(a \o b) = Len(a) + Len(b)
        /\ \A i \in 1 .. Len(a) + Len(b) :
             (a \o b)[i] = IF i <= Len(a) THEN a[i] ELSE b[i - Len(a)]
    BY <1>2, <1>3, ConcatProperties, Zenon
  <2> QED
    BY <1>4, <2>1
<1>6. ASSUME NEW i \in 1 .. Len(q) - 1
      PROVE  r[i] = IF i < k THEN q[i] ELSE q[i + 1]
  <2>1. CASE i < k
    <3>1. i \in 1 .. k - 1 /\ i \in 1 .. Len(a) + Len(b) /\ i <= Len(a)
      BY <1>1, <1>2, <1>3, <2>1
    <3> QED
      BY <1>2, <1>5, <2>1, <3>1
  <2>2. CASE ~(i < k)
    <3>1. i - (k - 1) \in 1 .. Len(q) - k /\ i \in 1 .. Len(a) + Len(b) /\ ~(i <= Len(a))
      BY <1>1, <1>2, <1>3, <2>2
    <3>2. r[i] = b[i - (k - 1)]
      BY <1>2, <1>5, <3>1
    <3>3. b[i - (k - 1)] = q[(i - (k - 1)) + k]
      BY <1>3, <3>1
    <3>4. (i - (k - 1)) + k = i + 1
      BY <1>1
    <3> QED
      BY <2>2, <3>2, <3>3, <3>4
  <2> QED
    BY <2>1, <2>2
<1> QED
  BY <1>1, <1>2, <1>3, <1>5, <1>6 DEF r

\* a sample out of a vector,
LEMMA DeleteShape ==
  ASSUME NEW v \in Vectors, NEW n \in 0 .. Count(v) - 1
  PROVE  /\ Delete(v, n) \in Vectors /\ Delete(v, n).width = v.width
         /\ Count(Delete(v, n)) = Count(v) - 1
         /\ \A i \in 1 .. Count(v) - 1 :
              Delete(v, n).samples[i] = IF i < n + 1 THEN v.samples[i] ELSE v.samples[i + 1]
<1> DEFINE q == RemoveAt(v.samples, n + 1)
<1>1. v.samples \in Seq(Int) /\ Count(v) = Len(v.samples) /\ n + 1 \in 1 .. Len(v.samples)
  BY DEF Vectors, Count
<1>2. /\ q \in Seq(Int) /\ Len(q) = Count(v) - 1
      /\ \A i \in 1 .. Count(v) - 1 :
           q[i] = IF i < n + 1 THEN v.samples[i] ELSE v.samples[i + 1]
  BY <1>1, RemoveAtShape
<1>3. Delete(v, n) = [v EXCEPT !.samples = q]
  BY DEF Delete
<1> HIDE DEF q
<1>4. Delete(v, n) = [width |-> v.width, samples |-> q]
  BY <1>3 DEF Vectors
<1>5. v.width \in Widths
  BY DEF Vectors
<1> QED
  BY <1>2, <1>4, <1>5 DEF Vectors, Count

\* and what is left is as good as before.
LEMMA DeleteOK ==
  ASSUME NEW W, NEW len, NEW u, NEW v, VecOK(v, W, len, u), len \in Nat, NEW n \in Int
  PROVE  VecOK(Delete(v, n), W, len, u)
<1>1. v \in Vectors /\ Count(v) \in Nat /\ Counts \in Nat
  BY ValuesAssumption DEF VecOK, Vectors, Count
<1>2. CASE n \in 0 .. Count(v) - 1
  <2> DEFINE d == Delete(v, n)
  <2>1. /\ d \in Vectors /\ d.width = v.width /\ Count(d) = Count(v) - 1
        /\ \A i \in 1 .. Count(v) - 1 :
             d.samples[i] = IF i < n + 1 THEN v.samples[i] ELSE v.samples[i + 1]
    BY <1>1, <1>2, DeleteShape
  <2> HIDE DEF d
  <2>2. \A i \in 1 .. Count(v) - 1 : i \in 1 .. Count(v) /\ i + 1 \in 1 .. Count(v)
    BY <1>1
  <2>3. \A i \in 1 .. Count(d) : d.samples[i] \in Samples(v.width, u)
    BY <2>1, <2>2 DEF VecOK
  <2> QED
    BY <1>1, <2>1, <2>3 DEF VecOK, d
<1>3. CASE n \notin 0 .. Count(v) - 1
  <2>1. Delete(v, n) = v
    BY <1>3 DEF Delete
  <2> QED
    BY <2>1
<1> QED
  BY <1>2, <1>3

-----------------------------------------------------------------------------
\* Additions to a vector.

\* The first sample is there, and the others are those of the vector.
LEMMA StartedOK ==
  ASSUME NEW W \in SUBSET Widths, NEW len \in Nat \ {0}, NEW u \in BOOLEAN,
         NEW v, VecOK(v, W, len, u)
  PROVE  /\ VecOK(Started(v), W, len, u) /\ Started(v).width = v.width
         /\ Count(Started(v)) = Greater(1, Count(v))
         /\ \A i \in 1 .. Count(v) : Started(v).samples[i] = v.samples[i]
         /\ Started(v).samples[1] = IF Count(v) = 0 THEN 0 ELSE v.samples[1]
<1>1. v \in Vectors /\ Count(v) \in Nat /\ Counts \in Nat \ {0, 1} /\ v.width \in Widths
  BY ValuesAssumption DEF VecOK, Vectors, Count
<1>2. CASE Count(v) = 0
  <2> DEFINE r == [width |-> v.width, samples |-> <<0>>]
  <2>1. Started(v) = r
    BY <1>1, <1>2 DEF Started, Vectors
  <2>2. <<0>> \in Seq(Int) /\ Len(<<0>>) = 1 /\ <<0>>[1] = 0
    OBVIOUS
  <2>3. r \in Vectors /\ r.width = v.width /\ Count(r) = 1 /\ r.samples[1] = 0
    BY <1>1, <2>2 DEF Vectors, Count
  <2>4. 0 \in Samples(v.width, u)
    BY <1>1, ZeroSample
  <2> HIDE DEF r
  <2>5. v.width \in W
    BY DEF VecOK
  <2>6. VecOK(r, W, len, u)
    BY <1>1, <2>3, <2>4, <2>5 DEF VecOK
  <2> QED
    BY <1>1, <1>2, <2>1, <2>3, <2>6 DEF Greater
<1>3. CASE Count(v) # 0
  <2>1. Started(v) = v
    BY <1>3 DEF Started
  <2> QED
    BY <1>1, <1>3, <2>1 DEF Greater
<1> QED
  BY <1>2, <1>3

\* The samples of a width that is less than 8.
Narrow == {1, 2, 4}

\* A wider sample holds what a narrower one does.
LEMMA SamplesGrow ==
  ASSUME NEW u \in BOOLEAN, NEW w \in {1, 2}
  PROVE  Samples(w, u) \subseteq Samples(2 * w, u)
<1>1. CASE w = 1
  BY <1>1, WidthFacts DEF Samples, Widths
<1>2. CASE w = 2
  BY <1>2, WidthFacts DEF Samples, Widths
<1> QED
  BY <1>1, <1>2

\* The one sample that inc() writes.
Added(v, n, unsigned) ==
  LET x == ToInt(Started(v).samples[1] + n)
  IN  IF ~Fits(v, n, unsigned) THEN Started(v).samples[1]
      ELSE IF unsigned /\ x < 0 THEN 0 ELSE Cast(x, v.width, unsigned)

\* inc() writes a sample of the width, and no other sample.
LEMMA IncShape ==
  ASSUME NEW len \in Nat \ {0}, NEW u \in BOOLEAN, NEW v, VecOK(v, Narrow, len, u),
         NEW n \in Ints32
  PROVE  /\ VecOK(Inc(v, n, u), Narrow, len, u)
         /\ Count(Inc(v, n, u)) = Greater(1, Count(v))
         /\ \A i \in 2 .. Count(v) : Inc(v, n, u).samples[i] = v.samples[i]
         /\ Inc(v, n, u).samples[1] = Added(v, n, u)
<1> DEFINE S == Started(v)
           y == Added(v, n, u)
           r == [S EXCEPT !.samples[1] = y]
           t == [S.samples EXCEPT ![1] = y]
<1>1. /\ VecOK(S, Narrow, len, u) /\ S.width = v.width /\ Count(S) = Greater(1, Count(v))
      /\ \A i \in 1 .. Count(v) : S.samples[i] = v.samples[i]
  <2>1. Narrow \in SUBSET Widths
    BY DEF Narrow, Widths
  <2> QED
    BY <2>1, StartedOK
<1>2. /\ S \in Vectors /\ S.samples \in Seq(Int) /\ Count(S) = Len(S.samples)
      /\ Count(v) \in Nat /\ Count(S) \in Nat /\ Count(S) >= 1 /\ Count(v) <= Count(S)
      /\ v.width \in Widths \ {8}
  BY <1>1 DEF VecOK, Vectors, Count, Greater, Narrow, Widths
<1>3. S.samples[1] \in Samples(v.width, u)
  BY <1>1, <1>2 DEF VecOK
<1>4. y \in Samples(v.width, u) /\ y \in Int
  <2>1. Samples(v.width, u) \subseteq Int
    BY <1>2, SamplesInt
  <2>2. n \in Int
    BY WidthFacts DEF Ints32, Widths
  <2>3. ToInt(S.samples[1] + n) \in Int
    <3>1. S.samples[1] + n \in Int
      BY <1>3, <2>1, <2>2
    <3>2. ToInt(S.samples[1] + n) \in Ints32
      BY <3>1, ToIntRange
    <3> QED
      BY <3>2, WidthFacts DEF Ints32, Widths
  <2>4. Cast(ToInt(S.samples[1] + n), v.width, u) \in Samples(v.width, u)
    BY <1>2, <2>3, CastRange
  <2>5. 0 \in Samples(v.width, u)
    BY <1>2, ZeroSample
  <2>6. y \in Samples(v.width, u)
    <3> HIDE DEF S
    <3> QED
      BY <1>3, <2>4, <2>5 DEF Added, S
  <2> QED
    BY <2>1, <2>6
<1> HIDE DEF S, y
<1>5. /\ t \in Seq(Int) /\ Len(t) = Len(S.samples)
      /\ \A j \in 1 .. Len(S.samples) : t[j] = IF j = 1 THEN y ELSE S.samples[j]
  <2>1. 1 \in 1 .. Len(S.samples)
    BY <1>2
  <2> QED
    BY <1>2, <1>4, <2>1, ExceptSeq
<1> HIDE DEF t
<1>6. r = [width |-> v.width, samples |-> t]
  BY <1>1, <1>2 DEF t, Vectors
<1>7. Inc(v, n, u) = r
  <2>1. CASE Fits(v, n, u)
    <3> DEFINE x == ToInt(S.samples[1] + n)
               z == IF u /\ x < 0 THEN 0 ELSE Cast(x, v.width, u)
    <3>1. y = z
      BY <2>1 DEF S, y, Added
    <3>2. Inc(v, n, u) = [S EXCEPT !.samples[1] = z]
      BY <2>1 DEF Inc, S
    <3> HIDE DEF z
    <3> QED
      BY <3>1, <3>2
  <2>2. CASE ~Fits(v, n, u)
    <3>1. Inc(v, n, u) = S /\ y = S.samples[1]
      BY <2>2 DEF Inc, S, y, Added
    <3>2. t = S.samples
      BY <1>2, <1>5, <3>1, SeqEqual
    <3>3. S = [width |-> S.width, samples |-> S.samples]
      BY <1>2 DEF Vectors
    <3>4. r = S
      BY <1>1, <1>6, <3>2, <3>3
    <3> QED
      BY <3>1, <3>4
  <2> QED
    BY <2>1, <2>2
<1> HIDE DEF r
<1>8. r \in Vectors /\ Count(r) = Count(S)
  BY <1>2, <1>5, <1>6 DEF Vectors, Count
<1>9. \A i \in 1 .. Count(r) : r.samples[i] \in Samples(v.width, u)
  BY <1>1, <1>2, <1>4, <1>5, <1>6, <1>8 DEF VecOK
<1>10. VecOK(r, Narrow, len, u)
  BY <1>1, <1>6, <1>8, <1>9 DEF VecOK
<1>11. \A i \in 2 .. Count(v) : r.samples[i] = v.samples[i]
  BY <1>1, <1>2, <1>5, <1>6
<1>12. r.samples[1] = y
  BY <1>2, <1>5, <1>6
<1> QED
  BY <1>1, <1>7, <1>8, <1>10, <1>11, <1>12 DEF y

\* The copy with wider samples has the samples of the vector.
LEMMA WidenedOK ==
  ASSUME NEW len \in Nat \ {0}, NEW u \in BOOLEAN, NEW v, VecOK(v, Narrow, len, u),
         v.width \in {1, 2}
  PROVE  /\ VecOK(Widened(v), Narrow, len, u)
         /\ Widened(v).width = 2 * v.width
         /\ Widened(v).samples = Started(v).samples
         /\ Started(Widened(v)) = Widened(v)
         /\ Count(Widened(v)) = Greater(1, Count(v))
<1> DEFINE S == Started(v)
           r == [width |-> 2 * v.width, samples |-> S.samples]
<1>1. VecOK(S, Narrow, len, u) /\ S.width = v.width /\ Count(S) = Greater(1, Count(v))
  <2>1. Narrow \in SUBSET Widths
    BY DEF Narrow, Widths
  <2> QED
    BY <2>1, StartedOK
<1> HIDE DEF S
<1>2. Widened(v) = r
  <2>1. S \in [width : Widths, samples : Seq(Int)]
    BY <1>1 DEF VecOK, Vectors
  <2>2. Widened(v) = [S EXCEPT !.width = 2 * S.width]
    BY DEF Widened, S
  <2> QED
    BY <1>1, <2>1, <2>2
<1>3. 2 * v.width \in Narrow \cap Widths
  BY DEF Narrow, Widths
<1>4. r \in Vectors /\ Count(r) = Count(S)
  BY <1>1, <1>3 DEF VecOK, Vectors, Count
<1>5. \A i \in 1 .. Count(r) : r.samples[i] \in Samples(2 * v.width, u)
  <2>1. Samples(v.width, u) \subseteq Samples(2 * v.width, u)
    BY SamplesGrow
  <2> QED
    BY <1>1, <1>4, <2>1 DEF VecOK
<1>6. VecOK(r, Narrow, len, u)
  BY <1>1, <1>3, <1>4, <1>5 DEF VecOK
<1>7. Count(v) \in Nat
  BY DEF VecOK, Vectors, Count
<1>8. Count(r) # 0
  BY <1>1, <1>4, <1>7 DEF Greater
<1>9. Started(r) = r
  BY <1>8 DEF Started
<1> QED
  BY <1>1, <1>2, <1>4, <1>6, <1>9 DEF S

\* inc() into wider samples if need be: one sample is written.
LEMMA IncOrExpandShape ==
  ASSUME NEW len \in Nat \ {0}, NEW u \in BOOLEAN, NEW v, VecOK(v, Narrow, len, u),
         NEW n \in Ints32
  PROVE  /\ VecOK(IncOrExpand(v, n, u), Narrow, len, u)
         /\ Count(IncOrExpand(v, n, u)) = Greater(1, Count(v))
         /\ \A i \in 2 .. Count(v) : IncOrExpand(v, n, u).samples[i] = v.samples[i]
<1>1. CASE Fits(v, n, u) \/ v.width = 4
  <2>1. IncOrExpand(v, n, u) = Inc(v, n, u)
    BY <1>1 DEF IncOrExpand
  <2> QED
    BY <2>1, IncShape
<1>2. CASE ~(Fits(v, n, u) \/ v.width = 4)
  <2> DEFINE q == Widened(v)
  <2>1. IncOrExpand(v, n, u) = Inc(q, n, u)
    BY <1>2 DEF IncOrExpand
  <2>2. v.width \in {1, 2}
    BY <1>2 DEF VecOK, Narrow
  <2>3. /\ VecOK(q, Narrow, len, u) /\ q.samples = Started(v).samples
        /\ Count(q) = Greater(1, Count(v))
    BY <2>2, WidenedOK
  <2> HIDE DEF q
  <2>4. /\ VecOK(Inc(q, n, u), Narrow, len, u)
        /\ Count(Inc(q, n, u)) = Greater(1, Count(q))
        /\ \A i \in 2 .. Count(q) : Inc(q, n, u).samples[i] = q.samples[i]
    BY <2>3, IncShape
  <2>5. Count(v) \in Nat
    BY DEF VecOK, Vectors, Count
  <2>6. \A i \in 1 .. Count(v) : Started(v).samples[i] = v.samples[i]
    <3>1. Narrow \in SUBSET Widths
      BY DEF Narrow, Widths
    <3> QED
      BY <3>1, StartedOK
  <2> QED
    BY <2>1, <2>3, <2>4, <2>5, <2>6 DEF Greater
<1> QED
  BY <1>1, <1>2

\* What an int can be added to.
First(v) == IF Count(v) = 0 THEN 0 ELSE v.samples[1]

\* The sum is in the first sample if it is an int, and if what was added is
\* no more than the next width takes (below zero an unsigned sample is 0).
LEMMA IncOrExpandSum ==
  ASSUME NEW len \in Nat \ {0}, NEW u \in BOOLEAN, NEW v, VecOK(v, Narrow, len, u),
         NEW n \in Ints32, First(v) + n \in Ints32,
         u => n <= Values[2] - Values[1],
         ~u => n \in Half(1) - Half(2) .. Half(2) - Half(1)
  PROVE  IncOrExpand(v, n, u).samples[1] = IF u THEN Greater(0, First(v) + n) ELSE First(v) + n
<1> DEFINE x == First(v) + n
           w == v.width
<1>0. Ints32 \subseteq Int /\ Narrow \subseteq Widths \ {8}
  BY WidthFacts DEF Ints32, Widths, Narrow
<1>1. w \in Narrow /\ w \in Widths
  BY <1>0 DEF VecOK
<1>2. Started(v).samples[1] = First(v) /\ First(v) \in Samples(w, u) /\ First(v) \in Int
  <2>1. VecOK(Started(v), Narrow, len, u) /\ Started(v).width = w
          /\ Count(Started(v)) = Greater(1, Count(v)) /\ Started(v).samples[1] = First(v)
    <3>1. Narrow \in SUBSET Widths
      BY <1>0
    <3> QED
      BY <3>1, StartedOK DEF First
  <2>2. Count(v) \in Nat
    BY DEF VecOK, Vectors, Count
  <2>3. 1 \in 1 .. Count(Started(v))
    BY <2>1, <2>2 DEF Greater
  <2>4. First(v) \in Samples(w, u)
    BY <2>1, <2>3 DEF VecOK
  <2> QED
    BY <1>1, <2>1, <2>4, SamplesInt
<1>3. ToInt(x) = x /\ x \in Int /\ n \in Int
  BY <1>0, ToIntSame
<1> HIDE DEF x
<1>4. CASE u /\ x < 0
  <2>1. Fits(v, n, u) /\ Added(v, n, u) = 0
    BY <1>2, <1>3, <1>4 DEF Fits, Added, x
  <2>2. IncOrExpand(v, n, u) = Inc(v, n, u)
    BY <2>1 DEF IncOrExpand
  <2>3. IncOrExpand(v, n, u).samples[1] = 0
    BY <2>1, <2>2, IncShape
  <2>4. Greater(0, First(v) + n) = 0
    BY <1>3, <1>4 DEF Greater, x
  <2> QED
    BY <1>4, <2>3, <2>4
<1>5. CASE ~(u /\ x < 0)
  <2>1. ASSUME NEW q, VecOK(q, Narrow, len, u), Started(q).samples[1] = First(v),
               x \in Samples(q.width, u)
        PROVE  Fits(q, n, u) /\ Inc(q, n, u).samples[1] = x
    <3>1. q.width \in Widths /\ q.width # 8
      BY <1>0, <2>1 DEF VecOK
    <3>2. Cast(x, q.width, u) = x
      BY <2>1, <3>1, CastSame
    <3>3. Fits(q, n, u)
      BY <1>3, <2>1, <3>2 DEF Fits, x
    <3>4. Added(q, n, u) = x
      BY <1>3, <1>5, <2>1, <3>2, <3>3 DEF Added, x
    <3> QED
      BY <2>1, <3>3, <3>4, IncShape
  <2>2. CASE x \in Samples(w, u)
    <3>1. Fits(v, n, u) /\ Inc(v, n, u).samples[1] = x
      BY <1>2, <2>1, <2>2
    <3>2. IncOrExpand(v, n, u) = Inc(v, n, u)
      BY <3>1 DEF IncOrExpand
    <3> QED
      BY <1>3, <1>5, <3>1, <3>2 DEF Greater, x
  <2>3. CASE x \notin Samples(w, u)
    <3>1. w \in {1, 2} /\ x \in Samples(2 * w, u)
      <4>0. x \in -Half(4) .. IntMax /\ w \in {1, 2, 4} /\ (u => x >= 0)
        BY <1>1, <1>3, <1>5 DEF Ints32, Narrow, x
      <4>1. CASE w = 1
        <5>1. CASE u
          <6>1. First(v) \in 0 .. Values[1] - 1 /\ n <= Values[2] - Values[1] /\ x >= 0
            BY <1>2, <4>0, <4>1, <5>1 DEF Samples
          <6>2. x \in 0 .. Values[2 * 1] - 1 /\ 2 * 1 # 8
            BY <1>2, <1>3, <6>1, WidthFacts DEF Widths, x
          <6> QED
            BY <4>1, <5>1, <6>2 DEF Samples
        <5>2. CASE ~u
          <6>1. First(v) \in -Half(1) .. Half(1) - 1 /\ n \in Half(1) - Half(2) .. Half(2) - Half(1)
            BY <1>2, <4>1, <5>2 DEF Samples
          <6>2. x \in -Half(2 * 1) .. Half(2 * 1) - 1 /\ 2 * 1 # 8
            BY <1>2, <1>3, <6>1, WidthFacts DEF Widths, x
          <6> QED
            BY <4>1, <5>2, <6>2 DEF Samples
        <5> QED
          BY <5>1, <5>2
      <4>2. CASE w = 2
        <5>1. CASE u
          <6>1. First(v) \in 0 .. Values[2] - 1 /\ n <= Values[2] - Values[1] /\ x >= 0
            BY <1>2, <4>0, <4>2, <5>1 DEF Samples
          <6>2. x \in 0 .. Values[2 * 2] - 1 /\ 2 * 2 # 8
            BY <1>2, <1>3, <6>1, WidthFacts DEF Widths, x
          <6> QED
            BY <4>2, <5>1, <6>2 DEF Samples
        <5>2. CASE ~u
          <6>1. First(v) \in -Half(2) .. Half(2) - 1 /\ n \in Half(1) - Half(2) .. Half(2) - Half(1)
            BY <1>2, <4>2, <5>2 DEF Samples
          <6>2. x \in -Half(2 * 2) .. Half(2 * 2) - 1 /\ 2 * 2 # 8
            BY <1>2, <1>3, <6>1, WidthFacts DEF Widths, x
          <6> QED
            BY <4>2, <5>2, <6>2 DEF Samples
        <5> QED
          BY <5>1, <5>2
      <4>3. CASE w = 4
        BY <1>3, <2>3, <4>0, <4>3, WidthFacts DEF Samples, Widths
      <4> QED
        BY <4>0, <4>1, <4>2, <4>3
    <3>2. ~Fits(v, n, u)
      <4>1. Cast(x, w, u) \in Samples(w, u) /\ Samples(w, u) \subseteq Ints32
        <5>1. w \in Widths \ {8}
          BY <1>0, <1>1
        <5>2. Cast(x, w, u) \in Samples(w, u)
          BY <1>3, <5>1, CastRange
        <5>3. Samples(w, u) \subseteq Ints32
          BY <3>1, WidthFacts DEF Samples, Widths, Ints32
        <5> QED
          BY <5>2, <5>3
      <4>2. ToInt(Cast(x, w, u)) = Cast(x, w, u)
        BY <4>1, ToIntSame
      <4>3. x # ToInt(Cast(x, w, u))
        BY <2>3, <4>1, <4>2
      <4> QED
        BY <1>2, <1>3, <1>5, <4>3 DEF Fits, x
    <3>3. /\ VecOK(Widened(v), Narrow, len, u) /\ Widened(v).width = 2 * w
          /\ Started(Widened(v)).samples[1] = First(v)
      BY <1>2, <3>1, WidenedOK
    <3>4. Inc(Widened(v), n, u).samples[1] = x
      BY <2>1, <3>1, <3>3
    <3>5. w # 4
      BY <3>1
    <3>6. IncOrExpand(v, n, u) = Inc(Widened(v), n, u)
      BY <3>2, <3>5 DEF IncOrExpand
    <3> QED
      BY <1>3, <1>5, <3>4, <3>6 DEF Greater, x
  <2> QED
    BY <2>2, <2>3
<1> QED
  BY <1>4, <1>5

-----------------------------------------------------------------------------
\* Vectors written to a dump and read back.

\* As text a vector comes back as it was,
LEMMA TextVectorSame ==
  ASSUME NEW W, NEW len \in Nat, NEW u \in BOOLEAN, NEW v, VecOK(v, W, len, u), 8 \in W => u
  PROVE  TextVector(v, len, u) = v
<1> DEFINE s == v.samples
           t == [i \in 1 .. Lesser(Len(s) % Counts, len) |-> Cast(TextInt(ToInt(s[i])), v.width, u)]
<1>1. /\ v \in Vectors /\ s \in Seq(Int) /\ Len(s) = Count(v) /\ Count(v) \in Nat
      /\ v.width \in Widths /\ (v.width = 8 => u) /\ Counts \in Nat \ {0, 1}
  BY ValuesAssumption DEF VecOK, Vectors, Count
<1>2. Lesser(Len(s) % Counts, len) = Len(s)
  <2>1. Len(s) \in 0 .. Counts - 1 /\ Len(s) <= len
    BY <1>1 DEF VecOK
  <2>2. Len(s) % Counts = Len(s)
    BY <1>1, <2>1, RemainderSame
  <2> QED
    BY <2>1, <2>2 DEF Lesser
<1>3. ASSUME NEW i \in 1 .. Len(s)
      PROVE  Cast(TextInt(ToInt(s[i])), v.width, u) = s[i]
  <2>1. s[i] \in Samples(v.width, u) /\ s[i] \in Int
    BY <1>1 DEF VecOK
  <2>2. TextInt(ToInt(s[i])) = ToInt(s[i])
    BY <2>1, TextIntSame
  <2>3. Cast(ToInt(s[i]), v.width, u) = s[i]
    BY <1>1, <2>1, CastBack
  <2> QED
    BY <2>2, <2>3
<1>4. TextVector(v, len, u) = [v EXCEPT !.samples = t]
  BY DEF TextVector
<1>5. t = s
  <2>1. t = [i \in 1 .. Len(s) |-> s[i]]
    BY <1>2, <1>3
  <2>2. s = [i \in 1 .. Len(s) |-> s[i]]
    BY <1>1
  <2> QED
    BY <2>1, <2>2
<1> HIDE DEF t
<1> QED
  BY <1>1, <1>4, <1>5 DEF Vectors

\* and so it does as binary.
LEMMA BinaryVectorSame ==
  ASSUME NEW W, NEW len \in Nat, NEW u \in BOOLEAN, NEW v, VecOK(v, W, len, u)
  PROVE  BinaryVector(v, len) = v
<1> DEFINE s == v.samples
<1>1. v \in Vectors /\ s \in Seq(Int) /\ Len(s) = Count(v) /\ Len(s) \in Nat /\ Len(s) <= len
  BY DEF VecOK, Vectors, Count
<1>2. Lesser(Len(s), len) = Len(s)
  BY <1>1 DEF Lesser
<1>3. SubSeq(s, 1, Len(s)) = s
  <2>1. /\ SubSeq(s, 1, Len(s)) \in Seq(Int) /\ Len(SubSeq(s, 1, Len(s))) = Len(s)
        /\ \A i \in 1 .. Len(s) : SubSeq(s, 1, Len(s))[i] = s[i]
    BY <1>1, SubSeqProperties
  <2> QED
    BY <1>1, <2>1, SeqEqual
<1>4. BinaryVector(v, len) = [v EXCEPT !.samples = SubSeq(s, 1, Lesser(Len(s), len))]
  BY DEF BinaryVector
<1> QED
  BY <1>1, <1>2, <1>3, <1>4 DEF Vectors

-----------------------------------------------------------------------------
\* What the fields of each type are.

EventsOK(f) ==
  /\ f \in [vec : [Units -> Vectors], date : [Units -> Periods \cup {-1}],
            total : 0 .. Values[4] - 1, last : Periods]
  /\ \A x \in Units : VecOK(f.vec[x], Narrow, Window[x], TRUE)

MarksOK(f) ==
  /\ f \in [num : Vectors, denom : Vectors, month : Periods \cup {-1}]
  /\ VecOK(f.num, Narrow, MarksWindow, FALSE)
  /\ VecOK(f.denom, Narrow, MarksWindow, TRUE)

LogOK(type, f) ==
  /\ f \in [items : Vectors, dates : Vectors]
  /\ VecOK(f.items, {4}, LogWindow[type], TRUE)
  /\ VecOK(f.dates, {8}, LogWindow[type], TRUE)

Holds(type, f) ==
  CASE type = "events" -> EventsOK(f)
    [] type = "marks"  -> MarksOK(f)
    [] type \in Logs   -> LogOK(type, f)
    [] OTHER           -> f \in Ints32

\* The types are those, and no two of them are the same.
LEMMA TypeCases ==
  /\ Types = {"events", "marks", "timestamp", "ulog", "log", "int", "uint"}
  /\ Logs = {"ulog", "log"} /\ Ints = {"int", "uint"}
  /\ \A f : /\ Holds("events", f) <=> EventsOK(f)
            /\ Holds("marks", f) <=> MarksOK(f)
            /\ \A type \in Logs : Holds(type, f) <=> LogOK(type, f)
            /\ \A type \in Ints \cup {"timestamp"} : Holds(type, f) <=> f \in Ints32
BY DEF Types, Logs, Ints, Holds

\* What the windows are.
LEMMA WindowFacts ==
  /\ Counts \in Nat \ {0, 1}
  /\ \A x \in Units : Window[x] \in Nat \ {0} /\ Window[x] < Counts
  /\ MarksWindow \in Nat \ {0} /\ MarksWindow < Counts
  /\ \A type \in Logs : LogWindow[type] \in Nat \ {0}
  /\ LogWindow["ulog"] < Counts
BY ValuesAssumption, WindowsAssumption

-----------------------------------------------------------------------------
\* What the operations make of them.

Moved(v, n, len) == IF n = 0 THEN v ELSE Translate(v, n, len)

\* As many periods have elapsed as the timer is ahead.
LEMMA ElapsedNat ==
  ASSUME NEW t \in Periods, NEW d \in Periods \cup {-1}
  PROVE  Elapsed(t, d) \in Nat
BY TimerAssumption DEF Elapsed, Greater, Periods

\* A vector that is moved, or is not, keeps its bounds.
LEMMA MovedOK ==
  ASSUME NEW W, NEW len \in Nat, NEW u \in BOOLEAN, NEW v, VecOK(v, W, len, u), NEW n \in Nat
  PROVE  VecOK(Moved(v, n, len), W, len, u)
BY TranslateOK DEF Moved

\* update() of events.
LEMMA UpdateEventsShape ==
  ASSUME NEW f, EventsOK(f), NEW at \in [Units -> Periods]
  PROVE  LET g == UpdateEvents(f, at)
         IN  /\ EventsOK(g)
             /\ g.date = at /\ g.total = f.total /\ g.last = f.last
             /\ \A x \in Units :
                  g.vec[x] = Moved(f.vec[x], Elapsed(at[x], f.date[x]), Window[x])
<1> DEFINE vec == [x \in Units |-> Moved(f.vec[x], Elapsed(at[x], f.date[x]), Window[x])]
           g   == [vec |-> vec, date |-> at, total |-> f.total, last |-> f.last]
<1>1. f \in [vec : [Units -> Vectors], date : [Units -> Periods \cup {-1}],
            total : 0 .. Values[4] - 1, last : Periods]
  BY DEF EventsOK
<1>2. UpdateEvents(f, at) = g
  <2>1. UpdateEvents(f, at) = [f EXCEPT !.vec = vec, !.date = at]
    BY DEF UpdateEvents, Moved
  <2> HIDE DEF vec
  <2> QED
    BY <1>1, <2>1
<1>3. ASSUME NEW x \in Units
      PROVE  VecOK(vec[x], Narrow, Window[x], TRUE)
  <2>1. VecOK(f.vec[x], Narrow, Window[x], TRUE)
    BY DEF EventsOK
  <2>2. Elapsed(at[x], f.date[x]) \in Nat
    BY <1>1, ElapsedNat
  <2>3. Window[x] \in Nat
    BY WindowFacts
  <2>4. VecOK(Moved(f.vec[x], Elapsed(at[x], f.date[x]), Window[x]), Narrow, Window[x], TRUE)
    BY <2>1, <2>2, <2>3, MovedOK
  <2> QED
    BY <2>4
<1>4. vec \in [Units -> Vectors]
  <2>1. \A x \in Units : vec[x] \in Vectors
    BY <1>3 DEF VecOK
  <2> QED
    BY <2>1
<1>5. \A x \in Units :
        vec[x] = Moved(f.vec[x], Elapsed(at[x], f.date[x]), Window[x])
  OBVIOUS
<1> HIDE DEF vec
<1>6. EventsOK(g)
  BY <1>1, <1>3, <1>4 DEF EventsOK
<1> QED
  BY <1>2, <1>5, <1>6

\* update() of marks.
LEMMA UpdateMarksShape ==
  ASSUME NEW f, MarksOK(f), NEW at \in [Units -> Periods]
  PROVE  LET g == UpdateMarks(f, at)
             n == Elapsed(at.months, f.month)
         IN  /\ MarksOK(g)
             /\ g.month = at.months
             /\ g.num = Moved(f.num, n, MarksWindow)
             /\ g.denom = Moved(f.denom, n, MarksWindow)
<1> DEFINE n == Elapsed(at.months, f.month)
           a == Moved(f.num, n, MarksWindow)
           b == Moved(f.denom, n, MarksWindow)
           g == [num |-> a, denom |-> b, month |-> at.months]
<1>1. /\ f.month \in Periods \cup {-1} /\ at["months"] \in Periods
      /\ VecOK(f.num, Narrow, MarksWindow, FALSE) /\ VecOK(f.denom, Narrow, MarksWindow, TRUE)
  BY DEF MarksOK, Units
<1>2. n \in Nat /\ MarksWindow \in Nat
  BY <1>1, ElapsedNat, WindowFacts
<1>3. UpdateMarks(f, at) = g
  BY DEF UpdateMarks, Moved
<1> HIDE DEF n
<1>4. VecOK(a, Narrow, MarksWindow, FALSE)
  BY <1>1, <1>2, MovedOK
<1>5. VecOK(b, Narrow, MarksWindow, TRUE)
  BY <1>1, <1>2, MovedOK
<1> HIDE DEF a, b
<1>6. MarksOK(g)
  BY <1>1, <1>4, <1>5 DEF MarksOK, VecOK
<1> QED
  BY <1>3, <1>6 DEF a, b, n

\* A new field is one of its type.
LEMMA NewHolds ==
  ASSUME NEW type \in Types
  PROVE  Holds(type, New(type))
<1>1. /\ Counts \in Nat \ {0, 1} /\ Narrow \in SUBSET Widths /\ {1, 2} \subseteq Narrow
      /\ {4} \in SUBSET Widths /\ {8} \in SUBSET Widths
      /\ 0 \in Periods /\ 0 \in 0 .. Values[4] - 1 /\ 0 \in Ints32
  BY WidthFacts, WindowFacts, TimerAssumption DEF Narrow, Widths, Periods, Ints32
<1>2. CASE type = "events"
  <2> DEFINE w(x) == IF x = "months" THEN 2 ELSE 1
  <2>1. \A x \in Units : w(x) \in Narrow /\ Window[x] \in Nat
    BY <1>1, WindowFacts
  <2>2. \A x \in Units : VecOK(Empty(w(x)), Narrow, Window[x], TRUE)
    BY <1>1, <2>1, EmptyOK
  <2>3. NewEvents = [vec   |-> [x \in Units |-> Empty(w(x))],
                     date  |-> [x \in Units |-> -1],
                     total |-> 0,
                     last  |-> 0]
    BY DEF NewEvents
  <2> HIDE DEF w
  <2>4. EventsOK(NewEvents)
    BY <1>1, <2>2, <2>3 DEF EventsOK, VecOK
  <2> QED
    BY <1>2, <2>4, TypeCases DEF New
<1>3. CASE type = "marks"
  <2>1. VecOK(Empty(1), Narrow, MarksWindow, FALSE) /\ VecOK(Empty(1), Narrow, MarksWindow, TRUE)
    BY <1>1, WindowFacts, EmptyOK
  <2>2. MarksOK(NewMarks)
    BY <2>1 DEF MarksOK, NewMarks, VecOK
  <2> QED
    BY <1>3, <2>2, TypeCases DEF New
<1>4. CASE type \in Logs
  <2>1. LogWindow[type] \in Nat
    BY <1>4, WindowFacts
  <2>2. VecOK(Empty(4), {4}, LogWindow[type], TRUE) /\ VecOK(Empty(8), {8}, LogWindow[type], TRUE)
    BY <1>1, <2>1, EmptyOK
  <2>3. LogOK(type, NewLog)
    BY <2>2 DEF LogOK, NewLog, VecOK
  <2>4. New(type) = NewLog
    BY <1>4 DEF New, Logs
  <2> QED
    BY <1>4, <2>3, <2>4, TypeCases
<1>5. CASE type \in Ints \cup {"timestamp"}
  <2>1. New(type) = 0
    BY <1>5 DEF New, Logs, Ints
  <2> QED
    BY <1>1, <1>5, <2>1, TypeCases
<1> QED
  BY <1>2, <1>3, <1>4, <1>5, TypeCases

\* add() of events: an update, and an addition to each vector.
LEMMA AddEventsShape ==
  ASSUME NEW f, EventsOK(f), NEW n \in Ints32, NEW T, IsTimer(T)
  PROVE  LET r == AddEvents(f, n, T)
         IN  /\ EventsOK(r) /\ r.date = T.at
             /\ \A x \in Units : r.vec[x] = IncOrExpand(UpdateEvents(f, T.at).vec[x], n, TRUE)
<1> DEFINE g == UpdateEvents(f, T.at)
           vec == [x \in Units |-> IncOrExpand(g.vec[x], n, TRUE)]
           total == Greater(0, ToInt(g.total + n))
           r == [vec |-> vec, date |-> T.at, total |-> total, last |-> T.now]
<1>1. T.at \in [Units -> Periods] /\ T.now \in Periods /\ Ints32 \subseteq Int
        /\ Periods \subseteq Int
  BY TimerAssumption, WidthFacts DEF IsTimer, Ints32, Widths, Periods
<1>2. EventsOK(g) /\ g.date = T.at
  BY <1>1, UpdateEventsShape
<1>3. AddEvents(f, n, T) = [g EXCEPT !.total = total, !.vec = vec, !.last = T.now]
  BY DEF AddEvents
<1> HIDE DEF g
<1>4. g \in [vec : [Units -> Vectors], date : [Units -> Periods \cup {-1}],
            total : 0 .. Values[4] - 1, last : Periods]
  BY <1>2 DEF EventsOK
<1>5. AddEvents(f, n, T) = r
  <2> HIDE DEF vec, total
  <2> QED
    BY <1>2, <1>3, <1>4
<1>6. total \in 0 .. Values[4] - 1
  <2>1. Values[4] \in Nat /\ IntMax \in Nat /\ IntMax < Values[4] /\ -Half(4) \in Int
    BY WidthFacts DEF Widths
  <2>2. ToInt(g.total + n) \in -Half(4) .. IntMax
    <3>1. g.total + n \in Int
      BY <1>1, <1>4, <2>1
    <3> QED
      BY <3>1, ToIntRange DEF Ints32
  <2> QED
    BY <2>1, <2>2 DEF Greater
<1>7. ASSUME NEW x \in Units
      PROVE  VecOK(vec[x], Narrow, Window[x], TRUE)
  <2>1. VecOK(g.vec[x], Narrow, Window[x], TRUE) /\ Window[x] \in Nat \ {0}
    BY <1>2, WindowFacts DEF EventsOK
  <2>2. VecOK(IncOrExpand(g.vec[x], n, TRUE), Narrow, Window[x], TRUE)
    BY <2>1, IncOrExpandShape
  <2> QED
    BY <2>2
<1>8. vec \in [Units -> Vectors]
  <2>1. \A x \in Units : vec[x] \in Vectors
    BY <1>7 DEF VecOK
  <2> QED
    BY <2>1
<1>9. \A x \in Units : vec[x] = IncOrExpand(g.vec[x], n, TRUE)
  OBVIOUS
<1> HIDE DEF vec, total
<1>10. EventsOK(r)
  BY <1>1, <1>6, <1>7, <1>8 DEF EventsOK
<1>11. r.date = T.at /\ r.vec = vec
  OBVIOUS
<1> HIDE DEF r
<1>12. \A x \in Units : r.vec[x] = IncOrExpand(UpdateEvents(f, T.at).vec[x], n, TRUE)
  BY <1>9, <1>11 DEF g
<1> QED
  BY <1>5, <1>10, <1>11, <1>12

\* One is an int.
LEMMA OneInt32 ==
  1 \in Ints32 /\ 0 \in Ints32 /\ Ints32 \subseteq Int
BY WidthFacts DEF Ints32, Widths

\* add() of marks: an update, and an addition to each of the two vectors.
LEMMA AddMarksShape ==
  ASSUME NEW f, MarksOK(f), NEW n \in Ints32, NEW T, IsTimer(T)
  PROVE  LET r == AddMarks(f, n, T)
             g == UpdateMarks(f, T.at)
         IN  /\ MarksOK(r) /\ r.month = T.at.months
             /\ r.num = IncOrExpand(g.num, n, FALSE)
             /\ r.denom = IncOrExpand(g.denom, 1, TRUE)
<1> DEFINE g == UpdateMarks(f, T.at)
           a == IncOrExpand(g.num, n, FALSE)
           b == IncOrExpand(g.denom, 1, TRUE)
           r == [num |-> a, denom |-> b, month |-> T.at.months]
<1>1. T.at \in [Units -> Periods]
  BY DEF IsTimer
<1>2. MarksOK(g) /\ g.month = T.at.months
  BY <1>1, UpdateMarksShape
<1>3. AddMarks(f, n, T) = [g EXCEPT !.num = a, !.denom = b]
  BY DEF AddMarks
<1> HIDE DEF g
<1>4. AddMarks(f, n, T) = r
  BY <1>2, <1>3 DEF MarksOK
<1>5. MarksWindow \in Nat \ {0} /\ 1 \in Ints32
  BY WindowFacts, OneInt32
<1>6. VecOK(a, Narrow, MarksWindow, FALSE)
  BY <1>2, <1>5, IncOrExpandShape DEF MarksOK
<1>7. VecOK(b, Narrow, MarksWindow, TRUE)
  BY <1>2, <1>5, IncOrExpandShape DEF MarksOK
<1>8. r.month \in Periods \cup {-1}
  BY <1>2 DEF MarksOK
<1> HIDE DEF a, b
<1>9. MarksOK(r)
  BY <1>6, <1>7, <1>8 DEF MarksOK, VecOK
<1> QED
  BY <1>4, <1>9 DEF a, b, g

\* insert() of logs: an item in front of the items and a date in front of the
\* dates.
LEMMA InsertShape ==
  ASSUME NEW type \in Logs, NEW f, LogOK(type, f), NEW n \in Ints32, NEW d \in 0 .. IntMax
  PROVE  LET r == Insert(type, f, n, d)
             len == LogWindow[type]
         IN  /\ LogOK(type, r)
             /\ Count(r.items) = Lesser(Count(f.items) + 1, len) % Counts
             /\ Count(r.dates) = Lesser(Count(f.dates) + 1, len) % Counts
             /\ \A i \in 1 .. Count(r.items) :
                  /\ r.items.samples[i] = IF i = 1 THEN Cast(n, 4, TRUE) ELSE f.items.samples[i - 1]
                  /\ i # 1 => i - 1 \in 1 .. Count(f.items)
             /\ \A i \in 1 .. Count(r.dates) :
                  /\ r.dates.samples[i] = IF i = 1 THEN d ELSE f.dates.samples[i - 1]
                  /\ i # 1 => i - 1 \in 1 .. Count(f.dates)
<1> DEFINE len == LogWindow[type]
           a == SetSample(Translate(f.items, 1, len), 0, n, TRUE)
           b == SetSample(Translate(f.dates, 1, len), 0, d, TRUE)
           r == [items |-> a, dates |-> b]
<1>1. len \in Nat \ {0} /\ n \in Int /\ d \in Int /\ Counts \in Nat
  BY WindowFacts, OneInt32
<1>2. /\ f.items \in Vectors /\ f.items.width = 4 /\ Count(f.items) \in Nat
      /\ f.dates \in Vectors /\ f.dates.width = 8 /\ Count(f.dates) \in Nat
      /\ \A i \in 1 .. Count(f.items) : f.items.samples[i] \in Samples(4, TRUE)
      /\ \A i \in 1 .. Count(f.dates) : f.dates.samples[i] \in Samples(8, TRUE)
  <2>1. VecOK(f.items, {4}, LogWindow[type], TRUE) /\ VecOK(f.dates, {8}, LogWindow[type], TRUE)
    BY DEF LogOK
  <2>2. f.items \in Vectors /\ f.items.width = 4 /\ f.dates \in Vectors /\ f.dates.width = 8
    BY <2>1 DEF VecOK
  <2>3. Count(f.items) \in Nat /\ Count(f.dates) \in Nat
    BY <2>2 DEF Vectors, Count
  <2>4. \A i \in 1 .. Count(f.items) : f.items.samples[i] \in Samples(4, TRUE)
    BY <2>1, <2>2 DEF VecOK
  <2>5. \A i \in 1 .. Count(f.dates) : f.dates.samples[i] \in Samples(8, TRUE)
    BY <2>1, <2>2 DEF VecOK
  <2> QED
    BY <2>2, <2>3, <2>4, <2>5
<1>3. Insert(type, f, n, d) = r
  BY DEF Insert
<1>4. /\ a \in Vectors /\ a.width = 4
      /\ Count(a) = Lesser(Count(f.items) + 1, len) % Counts
      /\ Count(a) <= Lesser(Count(f.items) + 1, len) /\ Count(a) < Counts
      /\ \A i \in 1 .. Count(a) :
           a.samples[i] = IF i = 1 THEN Cast(n, 4, TRUE) ELSE f.items.samples[i - 1]
      /\ \A i \in 1 .. Count(a) : i # 1 => i - 1 \in 1 .. Count(f.items)
  <2>1. /\ a \in Vectors /\ a.width = f.items.width
        /\ Count(a) = Lesser(Count(f.items) + 1, len) % Counts
        /\ Count(a) <= Lesser(Count(f.items) + 1, len) /\ Count(a) < Counts
        /\ \A i \in 1 .. Count(a) :
             a.samples[i] = IF i = 1 THEN Cast(n, f.items.width, TRUE) ELSE f.items.samples[i - 1]
        /\ \A i \in 1 .. Count(a) : i # 1 => i - 1 \in 1 .. Count(f.items)
    BY <1>1, <1>2, PushShape
  <2> HIDE DEF a
  <2> QED
    BY <1>2, <2>1
<1>5. Cast(d, 8, TRUE) = d /\ d \in Samples(8, TRUE)
  <2>1. d \in Samples(8, TRUE) /\ 8 \in Widths
    BY DEF Samples, Widths
  <2> QED
    BY <2>1, CastSame, Zenon
<1>6. /\ b \in Vectors /\ b.width = 8
      /\ Count(b) = Lesser(Count(f.dates) + 1, len) % Counts
      /\ Count(b) <= Lesser(Count(f.dates) + 1, len) /\ Count(b) < Counts
      /\ \A i \in 1 .. Count(b) : b.samples[i] = IF i = 1 THEN d ELSE f.dates.samples[i - 1]
      /\ \A i \in 1 .. Count(b) : i # 1 => i - 1 \in 1 .. Count(f.dates)
  <2>1. /\ b \in Vectors /\ b.width = f.dates.width
        /\ Count(b) = Lesser(Count(f.dates) + 1, len) % Counts
        /\ Count(b) <= Lesser(Count(f.dates) + 1, len) /\ Count(b) < Counts
        /\ \A i \in 1 .. Count(b) :
             b.samples[i] = IF i = 1 THEN Cast(d, f.dates.width, TRUE) ELSE f.dates.samples[i - 1]
        /\ \A i \in 1 .. Count(b) : i # 1 => i - 1 \in 1 .. Count(f.dates)
    BY <1>1, <1>2, PushShape
  <2> HIDE DEF b
  <2> QED
    BY <1>2, <1>5, <2>1
<1>7. Cast(n, 4, TRUE) \in Samples(4, TRUE)
  <2>1. 4 \in Widths \ {8}
    BY DEF Widths
  <2> QED
    BY <1>1, <2>1, CastRange
<1> HIDE DEF a, b
<1>8. VecOK(a, {4}, len, TRUE)
  <2>1. Count(a) \in Nat /\ Count(a) <= len
    BY <1>1, <1>2, <1>4 DEF Vectors, Count, Lesser
  <2> QED
    BY <1>2, <1>4, <1>7, <2>1 DEF VecOK
<1>9. VecOK(b, {8}, len, TRUE)
  <2>1. Count(b) \in Nat /\ Count(b) <= len
    BY <1>1, <1>2, <1>6 DEF Vectors, Count, Lesser
  <2> QED
    BY <1>2, <1>5, <1>6, <2>1 DEF VecOK
<1>10. LogOK(type, r)
  BY <1>4, <1>6, <1>8, <1>9 DEF LogOK
<1>11. r.items = a /\ r.dates = b
  OBVIOUS
<1> HIDE DEF r
<1> QED
  BY <1>3, <1>4, <1>6, <1>10, <1>11

\* The first position of an item is one, or -1.
LEMMA FindRange ==
  ASSUME NEW v \in Vectors, NEW n \in Int, NEW u \in BOOLEAN
  PROVE  LET at == {i \in 1 .. Count(v) : v.samples[i] = Cast(n, v.width, u)}
         IN  /\ Find(v, n, u) \in Int
             /\ \/ at = {} /\ Find(v, n, u) = -1
                \/ \E k \in at : (\A j \in at : k <= j) /\ Find(v, n, u) = k - 1
<1> DEFINE at == {i \in 1 .. Count(v) : v.samples[i] = Cast(n, v.width, u)}
           k == CHOOSE i \in at : \A j \in at : i <= j
<1>1. Find(v, n, u) = IF at = {} THEN -1 ELSE k - 1
  BY DEF Find
<1>2. CASE at = {}
  BY <1>1, <1>2
<1>3. CASE at # {}
  <2>1. at \subseteq Nat
    BY DEF Vectors, Count
  <2> HIDE DEF at
  <2>2. PICK i \in at : \A j \in at \ {i} : <<j, i>> \notin OpToRel(<, Nat)
    BY <1>3, <2>1, NatLessThanWellFounded, WFMin
  <2>3. \A j \in at : i <= j
    <3> SUFFICES ASSUME NEW j \in at, j # i PROVE i <= j
      BY <2>1
    <3>1. <<j, i>> \notin OpToRel(<, Nat) /\ j \in Nat /\ i \in Nat
      BY <2>1, <2>2
    <3> QED
      BY <3>1 DEF OpToRel
  <2>4. k \in at /\ \A j \in at : k <= j
    BY <2>3
  <2> HIDE DEF k
  <2>5. k - 1 \in Int
    BY <2>1, <2>4
  <2> QED
    BY <1>1, <1>3, <2>4, <2>5 DEF at
<1> QED
  BY <1>2, <1>3

\* del() of logs.
LEMMA LogDeleteOK ==
  ASSUME NEW type \in Logs, NEW f, LogOK(type, f), NEW n \in Int
  PROVE  LogOK(type, LogDelete(f, n))
<1> DEFINE pos == Find(f.items, n, TRUE)
<1>1. /\ f.items \in Vectors /\ f.dates \in Vectors /\ LogWindow[type] \in Nat
      /\ VecOK(f.items, {4}, LogWindow[type], TRUE) /\ VecOK(f.dates, {8}, LogWindow[type], TRUE)
  BY WindowFacts DEF LogOK
<1>2. CASE n = -1
  BY <1>2 DEF LogDelete
<1>3. CASE n # -1
  <2>1. pos \in Int
    BY <1>1, FindRange
  <2>2. LogDelete(f, n) = [items |-> Delete(f.items, pos), dates |-> Delete(f.dates, pos)]
    BY <1>3 DEF LogDelete
  <2> HIDE DEF pos
  <2>3. VecOK(Delete(f.items, pos), {4}, LogWindow[type], TRUE)
    BY <1>1, <2>1, DeleteOK
  <2>4. VecOK(Delete(f.dates, pos), {8}, LogWindow[type], TRUE)
    BY <1>1, <2>1, DeleteOK
  <2> DEFINE a == Delete(f.items, pos)
             b == Delete(f.dates, pos)
  <2>5. a \in Vectors /\ b \in Vectors
    BY <2>3, <2>4 DEF VecOK
  <2> HIDE DEF a, b
  <2>6. LogOK(type, [items |-> a, dates |-> b])
    BY <2>3, <2>4, <2>5 DEF LogOK, a, b
  <2> QED
    BY <2>2, <2>6 DEF a, b
<1> QED
  BY <1>2, <1>3

\* clear().
LEMMA ClearHolds ==
  ASSUME NEW type \in Types, NEW f, Holds(type, f)
  PROVE  /\ Holds(type, Clear(type, f))
         /\ type = "events" => \A x \in Units : /\ Clear(type, f).date[x] = -1
                                               /\ Clear(type, f).vec[x].samples = <<>>
         /\ type = "marks" => /\ Clear(type, f).month = -1
                              /\ Clear(type, f).num.samples = <<>>
                              /\ Clear(type, f).denom.samples = <<>>
         /\ type \in Logs => Clear(type, f) = NewLog
<1>1. Narrow \in SUBSET Widths /\ 0 \in Periods /\ 0 \in 0 .. Values[4] - 1
  BY WidthFacts, TimerAssumption DEF Narrow, Widths, Periods
<1>2. CASE type = "events"
  <2> DEFINE vec == [x \in Units |-> Empty(f.vec[x].width)]
             r == [vec |-> vec, date |-> [x \in Units |-> -1], total |-> 0, last |-> 0]
  <2>1. Clear(type, f) = r
    BY <1>2 DEF Clear, ClearEvents, NewEvents
  <2>2. EventsOK(f)
    BY <1>2, TypeCases
  <2>3. \A x \in Units : f.vec[x].width \in Narrow /\ Window[x] \in Nat
    BY <2>2, WindowFacts DEF EventsOK, VecOK
  <2>4. \A x \in Units : VecOK(vec[x], Narrow, Window[x], TRUE) /\ vec[x].samples = <<>>
    BY <1>1, <2>3, EmptyOK
  <2>5. vec \in [Units -> Vectors]
    BY <2>4 DEF VecOK
  <2> HIDE DEF vec
  <2>6. EventsOK(r)
    BY <1>1, <2>4, <2>5 DEF EventsOK
  <2>7. \A x \in Units : r.date[x] = -1 /\ r.vec[x].samples = <<>>
    BY <2>4
  <2> QED
    BY <1>2, <2>1, <2>6, <2>7, TypeCases DEF Logs
<1>3. CASE type = "marks"
  <2> DEFINE a == Empty(f.num.width)
             b == Empty(f.denom.width)
             r == [num |-> a, denom |-> b, month |-> -1]
  <2>1. Clear(type, f) = r
    BY <1>3 DEF Clear, ClearMarks, NewMarks, Logs, Empty
  <2>2. MarksOK(f)
    BY <1>3, TypeCases
  <2>3. f.num.width \in Narrow /\ f.denom.width \in Narrow /\ MarksWindow \in Nat
    BY <2>2, WindowFacts DEF MarksOK, VecOK
  <2>4. /\ VecOK(a, Narrow, MarksWindow, FALSE) /\ VecOK(b, Narrow, MarksWindow, TRUE)
        /\ a.samples = <<>> /\ b.samples = <<>>
    BY <1>1, <2>3, EmptyOK
  <2> HIDE DEF a, b
  <2>5. MarksOK(r)
    BY <2>4 DEF MarksOK, VecOK
  <2> QED
    BY <1>3, <2>1, <2>4, <2>5, TypeCases DEF Logs
<1>4. CASE type \notin {"events", "marks"}
  <2>1. Clear(type, f) = New(type)
    BY <1>4 DEF Clear
  <2>2. type \in Logs => New(type) = NewLog
    BY DEF New, Logs
  <2> QED
    BY <1>4, <2>1, <2>2, NewHolds
<1> QED
  BY <1>2, <1>3, <1>4

\* A dump, and a restore of the same type: nothing changes but a total that
\* is no int.
LEMMA RestoreSame ==
  ASSUME NEW type \in Types, NEW f, Holds(type, f)
  PROVE  /\ BinaryField(type, f) = f
         /\ type # "events" => TextField(type, f) = f
         /\ type = "events" => TextField(type, f) = [f EXCEPT !.total = Lesser(f.total, IntMax)]
<1>1. CASE type = "events"
  <2>1. EventsOK(f)
    BY <1>1, TypeCases
  <2>2. \A x \in Units : /\ BinaryVector(f.vec[x], Window[x]) = f.vec[x]
                         /\ TextVector(f.vec[x], Window[x], TRUE) = f.vec[x]
    <3> SUFFICES ASSUME NEW x \in Units
                 PROVE  /\ BinaryVector(f.vec[x], Window[x]) = f.vec[x]
                        /\ TextVector(f.vec[x], Window[x], TRUE) = f.vec[x]
      OBVIOUS
    <3>1. VecOK(f.vec[x], Narrow, Window[x], TRUE) /\ Window[x] \in Nat
      BY <2>1, WindowFacts DEF EventsOK
    <3> QED
      BY <3>1, BinaryVectorSame, TextVectorSame
  <2>3. f \in [vec : [Units -> Vectors], date : [Units -> Periods \cup {-1}],
              total : 0 .. Values[4] - 1, last : Periods]
    BY <2>1 DEF EventsOK
  <2>4. /\ [x \in Units |-> BinaryVector(f.vec[x], Window[x])] = f.vec
        /\ [x \in Units |-> TextVector(f.vec[x], Window[x], TRUE)] = f.vec
    BY <2>2, <2>3
  <2>5. TextInt(f.last) = f.last
    <3>1. f.last \in 0 .. MaxClock /\ MaxClock <= IntMax /\ MaxClock \in Nat /\ IntMax \in Int
      BY <2>3, FieldsAssumption, TimerAssumption, WidthFacts DEF Periods, Widths
    <3> QED
      BY <3>1 DEF TextInt, Lesser
  <2>6. BinaryField(type, f) = f
    <3>1. BinaryField(type, f) = BinaryEvents(f)
      BY <1>1 DEF BinaryField, Logs
    <3>2. BinaryEvents(f) = [f EXCEPT !.vec = [x \in Units |-> BinaryVector(f.vec[x], Window[x])]]
      BY DEF BinaryEvents
    <3>3. BinaryEvents(f) = [f EXCEPT !.vec = f.vec]
      BY <2>4, <3>2
    <3> QED
      BY <2>3, <3>1, <3>3
  <2>7. TextField(type, f) = [f EXCEPT !.total = Lesser(f.total, IntMax)]
    <3>1. TextField(type, f) = TextEvents(f)
      BY <1>1 DEF TextField, Logs
    <3>2. TextEvents(f) = [f EXCEPT !.vec   = [x \in Units |-> TextVector(f.vec[x], Window[x], TRUE)],
                                    !.total = TextInt(f.total), !.last = TextInt(f.last)]
      BY DEF TextEvents
    <3>3. TextEvents(f) = [f EXCEPT !.vec = f.vec, !.total = TextInt(f.total), !.last = f.last]
      BY <2>4, <2>5, <3>2
    <3> QED
      BY <2>3, <3>1, <3>3 DEF TextInt
  <2> QED
    BY <1>1, <2>6, <2>7
<1>2. CASE type = "marks"
  <2>1. MarksOK(f)
    BY <1>2, TypeCases
  <2>2. /\ VecOK(f.num, Narrow, MarksWindow, FALSE) /\ VecOK(f.denom, Narrow, MarksWindow, TRUE)
        /\ MarksWindow \in Nat /\ 8 \notin Narrow
        /\ f \in [num : Vectors, denom : Vectors, month : Periods \cup {-1}]
    <3>1. 8 \notin Narrow
      BY DEF Narrow
    <3> QED
      BY <2>1, <3>1, WindowFacts DEF MarksOK
  <2>3. BinaryVector(f.num, MarksWindow) = f.num /\ BinaryVector(f.denom, MarksWindow) = f.denom
    BY <2>2, BinaryVectorSame
  <2>4. TextVector(f.num, MarksWindow, FALSE) = f.num
    BY <2>2, TextVectorSame
  <2>5. TextVector(f.denom, MarksWindow, TRUE) = f.denom
    BY <2>2, TextVectorSame
  <2>6. BinaryField(type, f) = f
    <3>1. BinaryField(type, f) = BinaryMarks(f)
      BY <1>2 DEF BinaryField, Logs
    <3>2. BinaryMarks(f) = [f EXCEPT !.num = f.num, !.denom = f.denom]
      BY <2>3 DEF BinaryMarks
    <3> QED
      BY <2>2, <3>1, <3>2
  <2>7. TextField(type, f) = f
    <3>1. TextField(type, f) = TextMarks(f)
      BY <1>2 DEF TextField, Logs
    <3>2. TextMarks(f) = [f EXCEPT !.num = f.num, !.denom = f.denom]
      BY <2>4, <2>5 DEF TextMarks
    <3> QED
      BY <2>2, <3>1, <3>2
  <2> QED
    BY <1>2, <2>6, <2>7
<1>3. CASE type \in Logs
  <2>1. LogOK(type, f) /\ LogWindow[type] \in Nat
    BY <1>3, TypeCases, WindowFacts
  <2>2. /\ VecOK(f.items, {4}, LogWindow[type], TRUE) /\ VecOK(f.dates, {8}, LogWindow[type], TRUE)
        /\ f \in [items : Vectors, dates : Vectors]
    BY <2>1 DEF LogOK
  <2>3. /\ BinaryVector(f.items, LogWindow[type]) = f.items
        /\ BinaryVector(f.dates, LogWindow[type]) = f.dates
    BY <2>1, <2>2, BinaryVectorSame
  <2>4. TextVector(f.items, LogWindow[type], TRUE) = f.items
    BY <2>1, <2>2, TextVectorSame
  <2>5. TextVector(f.dates, LogWindow[type], TRUE) = f.dates
    BY <2>1, <2>2, TextVectorSame
  <2>6. BinaryField(type, f) = f
    BY <1>3, <2>2, <2>3 DEF BinaryField, BinaryLog, Logs
  <2>7. TextField(type, f) = f
    BY <1>3, <2>2, <2>4, <2>5 DEF TextField, TextLog, Logs
  <2> QED
    BY <1>3, <2>6, <2>7 DEF Logs
<1>4. CASE type \in Ints \cup {"timestamp"}
  <2>1. f \in -Half(4) .. IntMax /\ IntMax \in Int /\ -Half(4) \in Int
    BY <1>4, TypeCases, WidthFacts DEF Ints32, Widths
  <2>2. TextInt(f) = f
    BY <2>1 DEF TextInt, Lesser
  <2> QED
    BY <1>4, <2>2 DEF BinaryField, TextField, Ints, Logs
<1> QED
  BY <1>1, <1>2, <1>3, <1>4, TypeCases

\* The commands carry ints, and clocks show times that are.
LEMMA CommandFacts ==
  /\ Amounts \subseteq Ints32 /\ Items \subseteq Ints32 /\ Totals \subseteq 0 .. Values[4] - 1
  /\ Periods \subseteq 0 .. IntMax /\ 0 .. IntMax \subseteq Ints32 /\ 0 \in Periods
<1>1. MaxClock \in Nat /\ MaxClock <= IntMax /\ IntMax \in Nat /\ Half(4) \in Nat
  <2>1. Half(4) \in Nat \ {0} /\ IntMax = Half(4) - 1
    BY WidthFacts DEF Widths
  <2>2. MaxClock \in Nat /\ MaxClock <= IntMax
    BY FieldsAssumption, TimerAssumption
  <2> QED
    BY <2>1, <2>2
<1>2. Periods \subseteq 0 .. IntMax /\ 0 .. IntMax \subseteq Ints32 /\ 0 \in Periods
  BY <1>1 DEF Periods, Ints32
<1> QED
  BY <1>2, FieldsAssumption DEF Ints32

\* The commands of a field, by the name they have.
LEMMA CommandCases ==
  ASSUME NEW type \in Types, NEW c \in FieldCommands(type)
  PROVE  \/ c.op \in {"get", "clear"}
         \/ c.op = "add" /\ c.n \in Amounts
         \/ c.op = "set" /\ type \in Ints \cup {"timestamp"} /\ c.n \in Amounts
         \/ c.op = "total_set" /\ type = "events" /\ c.n \in Totals
         \/ /\ c.op = "insert" /\ type \in Logs
            /\ c.n \in Items /\ c.unique \in BOOLEAN /\ c.now \in BOOLEAN
<1>1. CASE c \in CommonCommands(type)
  BY <1>1, TypeCases DEF CommonCommands
<1>2. CASE type = "events" /\ c \in EventsCommands
  BY <1>2 DEF EventsCommands
<1>3. CASE type \in Logs /\ c \in LogCommands
  BY <1>3 DEF LogCommands
<1> QED
  BY <1>1, <1>2, <1>3, TypeCases DEF FieldCommands

\* An update makes of a field another of its type.
LEMMA UpdateHolds ==
  ASSUME NEW type \in Types, NEW f, Holds(type, f), NEW T, IsTimer(T)
  PROVE  Holds(type, Update(type, f, T))
<1>1. T.at \in [Units -> Periods]
  BY DEF IsTimer
<1>2. CASE type = "events"
  BY <1>1, <1>2, TypeCases, UpdateEventsShape DEF Update
<1>3. CASE type = "marks"
  BY <1>1, <1>3, TypeCases, UpdateMarksShape DEF Update
<1>4. CASE type \notin {"events", "marks"}
  BY <1>4 DEF Update
<1> QED
  BY <1>2, <1>3, <1>4

\* A command makes of a field another of its type.
LEMMA ApplyHolds ==
  ASSUME NEW type \in Types, NEW f, Holds(type, f), NEW c \in FieldCommands(type),
         NEW T, IsTimer(T)
  PROVE  Holds(type, Apply(type, f, c, T))
<1>1. /\ T.at \in [Units -> Periods] /\ T.now \in Periods /\ T.now \in Ints32
      /\ T.now \in 0 .. IntMax /\ 0 \in 0 .. IntMax /\ 0 \in Ints32 /\ Ints32 \subseteq Int
  BY CommandFacts, OneInt32 DEF IsTimer
<1>2. CASE c.op = "get"
  BY <1>2, UpdateHolds DEF Apply
<1>3. CASE c.op = "clear"
  BY <1>3, ClearHolds DEF Apply
<1>4. CASE c.op = "add" /\ c.n \in Amounts
  <2>1. Apply(type, f, c, T) = Add(type, f, c.n, T) /\ c.n \in Ints32
    BY <1>4, CommandFacts DEF Apply
  <2>2. CASE type = "events"
    <3>1. Apply(type, f, c, T) = AddEvents(f, c.n, T)
      BY <2>1, <2>2 DEF Add, Ints, Logs
    <3> QED
      BY <2>1, <2>2, <3>1, TypeCases, AddEventsShape
  <2>3. CASE type = "marks"
    <3>1. Apply(type, f, c, T) = AddMarks(f, c.n, T)
      BY <2>1, <2>3 DEF Add, Ints, Logs
    <3> QED
      BY <2>1, <2>3, <3>1, TypeCases, AddMarksShape
  <2>4. CASE type = "timestamp"
    BY <1>1, <2>1, <2>4, TypeCases DEF Add, Ints, Logs
  <2>5. CASE type \in Ints
    <3>1. Apply(type, f, c, T) = SetInt(type, ToInt(f + c.n)) /\ f \in Ints32
      BY <2>1, <2>5, TypeCases DEF Add
    <3>2. f + c.n \in Int
      <4>1. f \in Int /\ c.n \in Int
        BY <2>1, <3>1, OneInt32, Zenon
      <4> QED
        BY <4>1
    <3>3. ToInt(f + c.n) \in Ints32
      BY <3>2, ToIntRange
    <3> QED
      BY <1>1, <2>5, <3>1, <3>3, TypeCases DEF SetInt
  <2>6. CASE type \in Logs
    <3>1. Apply(type, f, c, T) = Insert(type, f, c.n, T.now)
      BY <2>1, <2>6, TypeCases DEF Add
    <3> QED
      <4>1. LogOK(type, f)
        BY <2>6, TypeCases
      <4>2. LogOK(type, Insert(type, f, c.n, T.now))
        BY <1>1, <2>1, <2>6, <4>1, InsertShape
      <4> QED
        BY <2>6, <3>1, <4>2, TypeCases
  <2> QED
    BY <2>2, <2>3, <2>4, <2>5, <2>6, TypeCases
<1>5. CASE c.op = "set" /\ type \in Ints \cup {"timestamp"} /\ c.n \in Amounts
  <2>1. Apply(type, f, c, T) = Set(type, f, c.n) /\ c.n \in Ints32
    BY <1>5, CommandFacts DEF Apply
  <2>2. Set(type, f, c.n) \in Ints32
    BY <1>1, <1>5, <2>1, TypeCases DEF Set, SetInt
  <2> QED
    BY <1>5, <2>1, <2>2, TypeCases
<1>6. CASE c.op = "total_set" /\ type = "events" /\ c.n \in Totals
  <2>1. Apply(type, f, c, T) = [f EXCEPT !.total = c.n] /\ c.n \in 0 .. Values[4] - 1
    BY <1>6, CommandFacts DEF Apply
  <2>2. EventsOK(f)
    BY <1>6, TypeCases
  <2>3. EventsOK([f EXCEPT !.total = c.n])
    BY <2>1, <2>2 DEF EventsOK
  <2> QED
    BY <1>6, <2>1, <2>3, TypeCases
<1>7. CASE c.op = "insert" /\ type \in Logs /\ c.n \in Items
  <2> DEFINE g == IF c.unique THEN LogDelete(f, c.n) ELSE f
             d == IF c.now THEN T.now ELSE 0
  <2>1. Apply(type, f, c, T) = Insert(type, g, c.n, d) /\ c.n \in Ints32 /\ c.n \in Int
    BY <1>1, <1>7, CommandFacts DEF Apply
  <2>2. LogOK(type, f)
    BY <1>7, TypeCases
  <2>3. LogOK(type, g)
    BY <1>7, <2>1, <2>2, LogDeleteOK
  <2>4. d \in 0 .. IntMax
    BY <1>1
  <2> HIDE DEF g, d
  <2>5. LogOK(type, Insert(type, g, c.n, d))
    BY <1>7, <2>1, <2>3, <2>4, InsertShape
  <2> QED
    BY <1>7, <2>1, <2>5, TypeCases
<1> QED
  BY <1>2, <1>3, <1>4, <1>5, <1>6, <1>7, CommandCases

-----------------------------------------------------------------------------
\* Tallies: the samples of a vector whose first one is of period d are what p
\* counts, and p counts nothing in the periods for which there is no sample.

Counted(v, d, p, window) ==
  /\ \A q \in Periods : p[q] \in Ints32
  /\ Count(v) <= d + 1
  /\ \A q \in Periods :
       /\ (d = -1 \/ q > d) => p[q] = 0
       /\ (d # -1 /\ q <= d /\ d - q < Count(v)) => v.samples[d - q + 1] = p[q]
       /\ (d # -1 /\ q <= d /\ d - q >= Count(v) /\ d - q < window) => p[q] = 0

\* That is what the model says of a vector.
LEMMA CountedTallies ==
  ASSUME NEW v, NEW d \in Periods \cup {-1}, NEW p, NEW window \in Nat,
         Counted(v, d, p, window), Count(v) \in Nat
  PROVE  Tallies(v, d, p, window)
<1> SUFFICES ASSUME NEW q \in Periods
             PROVE  CASE d = -1 \/ q > d         -> p[q] = 0
                      [] q <= d /\ d - q < Count(v) -> Sample(v, d - q) = p[q]
                      [] OTHER                   -> d - q < window => p[q] = 0
  BY DEF Tallies
<1>1. q \in Nat /\ d \in Int
  BY TimerAssumption DEF Periods
<1>2. CASE d = -1 \/ q > d
  <2>1. p[q] = 0 /\ ~(q <= d)
    BY <1>1, <1>2 DEF Counted
  <2> QED
    BY <1>2, <2>1
<1>3. CASE d # -1 /\ q <= d /\ d - q < Count(v)
  <2>1. v.samples[d - q + 1] = p[q] /\ p[q] \in Ints32
    BY <1>3 DEF Counted
  <2>2. Sample(v, d - q) = p[q]
    BY <1>3, <2>1, ToIntSame DEF Sample
  <2> QED
    BY <1>1, <1>3, <2>2
<1>4. CASE d # -1 /\ q <= d /\ d - q >= Count(v)
  <2>1. d - q < window => p[q] = 0
    BY <1>4 DEF Counted
  <2> QED
    BY <1>1, <1>4, <2>1
<1> QED
  BY <1>1, <1>2, <1>3, <1>4

\* An update that finds the timer at or past the date keeps the tallies.
LEMMA MovedCounted ==
  ASSUME NEW W, NEW window \in Nat \ {0}, window < Counts, NEW u \in BOOLEAN,
         NEW v, VecOK(v, W, window, u), NEW d \in Periods \cup {-1}, NEW t \in Periods, d <= t,
         NEW p, Counted(v, d, p, window)
  PROVE  Counted(Moved(v, Elapsed(t, d), window), t, p, window)
<1> DEFINE n == Elapsed(t, d)
           r == Moved(v, n, window)
<1>1. /\ t \in Nat /\ d \in Int /\ d >= -1 /\ Periods \subseteq Nat /\ Counts \in Nat
      /\ v \in Vectors /\ Count(v) \in Nat /\ Count(v) <= window
  BY TimerAssumption, ValuesAssumption DEF Periods, VecOK, Vectors, Count
<1>2. n \in Nat /\ (d = -1 => n = 0) /\ (d # -1 => n = t - d)
  BY <1>1 DEF Elapsed, Greater
<1> HIDE DEF n
<1>3. CASE n = 0
  <2>1. r = v
    BY <1>3 DEF Moved
  <2>2. CASE d = -1
    <3>1. Count(v) = 0 /\ (\A q \in Periods : p[q] \in Ints32 /\ p[q] = 0) /\ t # -1
      BY <1>1, <2>2 DEF Counted
    <3> HIDE DEF r
    <3>2. Counted(r, t, p, window)
      BY <1>1, <2>1, <3>1 DEF Counted
    <3> QED
      BY <3>2 DEF r, n
  <2>3. CASE d # -1
    <3>1. d = t
      BY <1>1, <1>2, <1>3, <2>3
    <3> QED
      BY <2>1, <3>1 DEF n
  <2> QED
    BY <2>2, <2>3
<1>4. CASE n # 0
  <2> DEFINE delta == Lesser(n, window)
             most  == Lesser(Count(v) + delta, window)
  <2>1. r = Translate(v, n, window)
    BY <1>4 DEF Moved
  <2>2. /\ Count(r) = most % Counts
        /\ \A i \in 1 .. Count(r) : r.samples[i] = IF i <= delta THEN 0 ELSE v.samples[i - delta]
        /\ \A i \in 1 .. Count(r) : i > delta => i - delta \in 1 .. Count(v)
    <3> DEFINE m == Translate(v, n, window)
    <3>1. /\ Count(m) = most % Counts
          /\ \A i \in 1 .. Count(m) : m.samples[i] = IF i <= delta THEN 0 ELSE v.samples[i - delta]
          /\ \A i \in 1 .. Count(m) : i > delta => i - delta \in 1 .. Count(v)
      <4>1. window \in Nat /\ v \in Vectors /\ n \in Nat
        BY <1>1, <1>2
      <4> QED
        BY <4>1, TranslateShape
    <3> HIDE DEF m, r, most, delta
    <3> QED
      BY <2>1, <3>1 DEF m
  <2>3. /\ delta \in Nat /\ delta <= n /\ (delta < n => delta = window)
        /\ most \in Nat /\ most <= window /\ (most < window => most = Count(v) + delta)
        /\ delta <= most /\ most <= Count(v) + delta
    BY <1>1, <1>2 DEF Lesser
  <2>4. most % Counts = most
    <3>1. most \in 0 .. Counts - 1 /\ Counts \in Nat \ {0}
      BY <1>1, <2>3
    <3> QED
      BY <3>1, RemainderSame
  <2> HIDE DEF delta, most, r
  <2>5. d # -1 /\ n = t - d /\ Count(r) = most
    BY <1>2, <1>4, <2>2, <2>4
  <2>6. ASSUME NEW q \in Periods
        PROVE  /\ (t = -1 \/ q > t) => p[q] = 0
               /\ (t # -1 /\ q <= t /\ t - q < Count(r)) => r.samples[t - q + 1] = p[q]
               /\ (t # -1 /\ q <= t /\ t - q >= Count(r) /\ t - q < window) => p[q] = 0
    <3>1. /\ q \in Nat
          /\ q > d => p[q] = 0
          /\ (q <= d /\ d - q < Count(v)) => v.samples[d - q + 1] = p[q]
          /\ (q <= d /\ d - q >= Count(v) /\ d - q < window) => p[q] = 0
      BY <1>1, <2>5 DEF Counted
    <3>2. q > t => p[q] = 0
      BY <1>1, <3>1
    <3>3. ASSUME q <= t, t - q < Count(r)
          PROVE  r.samples[t - q + 1] = p[q]
      <4> DEFINE i == t - q + 1
      <4>1. i \in 1 .. Count(r) /\ i \in Int
        BY <1>1, <2>2, <2>3, <2>4, <3>1, <3>3
      <4>2. r.samples[i] = IF i <= delta THEN 0 ELSE v.samples[i - delta]
        BY <2>2, <4>1
      <4>3. CASE i <= delta
        <5>1. q > d
          BY <1>1, <2>3, <2>5, <3>1, <4>3
        <5> QED
          BY <3>1, <4>2, <4>3, <5>1
      <4>4. CASE ~(i <= delta)
        <5>1. i - delta \in 1 .. Count(v)
          BY <2>2, <2>3, <4>1, <4>4
        <5>2. delta = n
          BY <1>1, <1>2, <2>3, <2>5, <4>1, <4>4
        <5>3. i - delta = d - q + 1 /\ q <= d /\ d - q < Count(v)
          BY <1>1, <2>5, <3>1, <5>1, <5>2
        <5> QED
          BY <3>1, <4>2, <4>4, <5>3
      <4> QED
        BY <4>3, <4>4
    <3>4. ASSUME q <= t, t - q >= Count(r), t - q < window
          PROVE  p[q] = 0
      <4>1. Count(r) = Count(v) + delta /\ delta = n
        BY <1>1, <1>2, <2>3, <2>5, <3>1, <3>4
      <4>2. d - q >= Count(v) /\ d - q < window
        BY <1>1, <1>2, <2>5, <3>1, <3>4, <4>1
      <4> QED
        BY <1>1, <3>1, <4>2
    <3> QED
      BY <1>1, <3>2, <3>3, <3>4
  <2>7. \A q \in Periods : p[q] \in Ints32
    BY DEF Counted
  <2>8. t # -1
    BY <1>1
  <2>9. Count(r) <= t + 1
    <3>1. Count(v) <= d + 1
      BY DEF Counted
    <3> QED
      BY <1>1, <1>2, <2>3, <2>5, <3>1
  <2>10. Counted(r, t, p, window)
    BY <2>6, <2>7, <2>8, <2>9 DEF Counted
  <2> QED
    BY <2>10 DEF r, n
<1> QED
  BY <1>3, <1>4

\* The first sample counts the present period,
LEMMA FirstCounted ==
  ASSUME NEW v, Count(v) \in Nat, NEW t \in Periods, NEW p, NEW window \in Nat \ {0},
         Counted(v, t, p, window)
  PROVE  First(v) = p[t]
<1>1. t \in Nat /\ t # -1 /\ t - t = 0
  BY TimerAssumption DEF Periods
<1>2. CASE Count(v) = 0
  BY <1>1, <1>2 DEF Counted, First
<1>3. CASE Count(v) # 0
  <2>1. t - t < Count(v) /\ t <= t /\ (t - t) + 1 = 1
    BY <1>1, <1>3
  <2>2. v.samples[(t - t) + 1] = p[t]
    BY <1>1, <2>1 DEF Counted
  <2> QED
    BY <1>3, <2>1, <2>2 DEF First
<1> QED
  BY <1>2, <1>3

\* and an addition to both keeps the tallies.
LEMMA AddedCounted ==
  ASSUME NEW v, Count(v) \in Nat, NEW t \in Periods, NEW p \in [Periods -> Int],
         NEW window \in Nat \ {0}, Counted(v, t, p, window), NEW y \in Ints32,
         NEW r, Count(r) = Greater(1, Count(v)), r.samples[1] = y,
         \A i \in 2 .. Count(v) : r.samples[i] = v.samples[i]
  PROVE  Counted(r, t, [p EXCEPT ![t] = y], window)
<1> DEFINE new == [p EXCEPT ![t] = y]
<1>1. t \in Nat /\ t # -1 /\ Periods \subseteq Nat
  BY TimerAssumption DEF Periods
<1>2. new[t] = y /\ \A q \in Periods \ {t} : new[q] = p[q]
  OBVIOUS
<1> HIDE DEF new
<1>3. ASSUME NEW q \in Periods
      PROVE  /\ new[q] \in Ints32
             /\ (t = -1 \/ q > t) => new[q] = 0
             /\ (t # -1 /\ q <= t /\ t - q < Count(r)) => r.samples[t - q + 1] = new[q]
             /\ (t # -1 /\ q <= t /\ t - q >= Count(r) /\ t - q < window) => new[q] = 0
  <2>1. CASE q = t
    <3>1. t - q + 1 = 1 /\ ~(q > t) /\ ~(t - q >= Count(r))
      BY <1>1, <2>1 DEF Greater
    <3> QED
      BY <1>1, <1>2, <2>1, <3>1
  <2>2. CASE q # t
    <3>1. /\ q \in Nat /\ p[q] \in Ints32 /\ new[q] = p[q]
          /\ q > t => p[q] = 0
          /\ (q <= t /\ t - q < Count(v)) => v.samples[t - q + 1] = p[q]
          /\ (q <= t /\ t - q >= Count(v) /\ t - q < window) => p[q] = 0
      BY <1>1, <1>2, <2>2 DEF Counted
    <3>2. ASSUME q <= t, t - q < Count(r)
          PROVE  t - q + 1 \in 2 .. Count(v) /\ t - q < Count(v)
      BY <1>1, <2>2, <3>1, <3>2 DEF Greater
    <3>3. ASSUME q <= t, t - q >= Count(r)
          PROVE  t - q >= Count(v)
      BY <1>1, <3>1, <3>3 DEF Greater
    <3> QED
      BY <1>1, <3>1, <3>2, <3>3
  <2> QED
    BY <2>1, <2>2
<1>4. Count(r) <= t + 1
  BY <1>1 DEF Counted, Greater
<1> QED
  BY <1>1, <1>3, <1>4 DEF Counted, new

-----------------------------------------------------------------------------
\* Fields and what their contracts say they hold.

PastHolds(type, p) ==
  CASE type = "events" -> p \in [Units -> [Periods -> Nat]]
    [] type = "marks"  -> p \in [num : [Periods -> Int], denom : [Periods -> Nat]]
    [] type \in Logs   -> p \in Seq(Ints32 \X (0 .. IntMax))
    [] OTHER           -> TRUE

Tallied(type, f, p) ==
  /\ type = "events" => \A x \in Units : Counted(f.vec[x], f.date[x], p[x], Window[x])
  /\ type = "marks" => /\ Counted(f.num, f.month, p.num, MarksWindow)
                       /\ Counted(f.denom, f.month, p.denom, MarksWindow)

\* Nothing is counted by a vector that is empty.
LEMMA NothingCounted ==
  ASSUME NEW v, v.samples = <<>>, NEW window
  PROVE  Counted(v, -1, [q \in Periods |-> 0], window)
<1>1. Count(v) = 0
  BY DEF Count
<1>2. \A q \in Periods : q > -1
  BY TimerAssumption DEF Periods
<1> QED
  BY <1>1, <1>2, OneInt32 DEF Counted

\* A new contract is one of its type.
LEMMA NewPastHolds ==
  ASSUME NEW type \in Types
  PROVE  PastHolds(type, NewPast(type))
<1>1. CASE type = "events"
  BY <1>1 DEF PastHolds, NewPast, Logs
<1>2. CASE type = "marks"
  BY <1>2 DEF PastHolds, NewPast, Logs
<1>3. CASE type \in Logs
  <2>1. NewPast(type) = <<>>
    BY <1>3 DEF NewPast, Logs
  <2>2. <<>> \in Seq(Ints32 \X (0 .. IntMax))
    OBVIOUS
  <2> QED
    BY <1>3, <2>1, <2>2 DEF PastHolds, Logs
<1>4. CASE type \in Ints \cup {"timestamp"}
  BY <1>4 DEF PastHolds, Logs, Ints
<1> QED
  BY <1>1, <1>2, <1>3, <1>4, TypeCases

\* A new field, and one that was cleared, count nothing.
LEMMA ClearTallied ==
  ASSUME NEW type \in Types, NEW f, Holds(type, f)
  PROVE  Tallied(type, New(type), NewPast(type)) /\ Tallied(type, Clear(type, f), NewPast(type))
<1> DEFINE none == [q \in Periods |-> 0]
<1>1. CASE type = "events"
  <2>1. NewPast(type) = [x \in Units |-> none]
    BY <1>1 DEF NewPast
  <2>2. \A x \in Units : /\ Clear(type, f).date[x] = -1 /\ Clear(type, f).vec[x].samples = <<>>
                         /\ New(type).date[x] = -1 /\ New(type).vec[x].samples = <<>>
    BY <1>1, ClearHolds DEF New, NewEvents, Empty, Logs
  <2> HIDE DEF none
  <2>3. \A x \in Units : /\ Counted(Clear(type, f).vec[x], -1, none, Window[x])
                         /\ Counted(New(type).vec[x], -1, none, Window[x])
    BY <2>2, NothingCounted DEF none
  <2> QED
    BY <1>1, <2>1, <2>2, <2>3 DEF Tallied
<1>2. CASE type = "marks"
  <2>1. NewPast(type) = [num |-> none, denom |-> none]
    BY <1>2 DEF NewPast
  <2>2. /\ Clear(type, f).month = -1 /\ New(type).month = -1
        /\ Clear(type, f).num.samples = <<>> /\ New(type).num.samples = <<>>
        /\ Clear(type, f).denom.samples = <<>> /\ New(type).denom.samples = <<>>
    BY <1>2, ClearHolds DEF New, NewMarks, Empty, Logs
  <2> HIDE DEF none
  <2>3. /\ Counted(Clear(type, f).num, -1, none, MarksWindow)
        /\ Counted(New(type).num, -1, none, MarksWindow)
        /\ Counted(Clear(type, f).denom, -1, none, MarksWindow)
        /\ Counted(New(type).denom, -1, none, MarksWindow)
    BY <2>2, NothingCounted DEF none
  <2> QED
    BY <1>2, <2>1, <2>2, <2>3 DEF Tallied
<1>3. CASE type \notin {"events", "marks"}
  BY <1>3 DEF Tallied
<1> QED
  BY <1>1, <1>2, <1>3

\* The window of a unit is less than a vector can count.
LEMMA UpdateEventsTallied ==
  ASSUME NEW f, EventsOK(f), NEW p, NEW T, IsTimer(T),
         \A x \in Units : Counted(f.vec[x], f.date[x], p[x], Window[x]),
         \A x \in Units : f.date[x] <= T.at[x], NEW x \in Units
  PROVE  Counted(UpdateEvents(f, T.at).vec[x], T.at[x], p[x], Window[x])
<1>1. /\ T.at \in [Units -> Periods] /\ T.at[x] \in Periods /\ f.date[x] \in Periods \cup {-1}
      /\ f.date[x] <= T.at[x] /\ Counted(f.vec[x], f.date[x], p[x], Window[x])
      /\ Window[x] \in Nat \ {0} /\ Window[x] < Counts
      /\ VecOK(f.vec[x], Narrow, Window[x], TRUE)
  BY WindowFacts DEF IsTimer, EventsOK
<1>2. UpdateEvents(f, T.at).vec[x] = Moved(f.vec[x], Elapsed(T.at[x], f.date[x]), Window[x])
  BY <1>1, UpdateEventsShape
<1>3. Counted(Moved(f.vec[x], Elapsed(T.at[x], f.date[x]), Window[x]), T.at[x], p[x], Window[x])
  BY <1>1, MovedCounted
<1> QED
  BY <1>2, <1>3

\* The same of marks.
LEMMA UpdateMarksTallied ==
  ASSUME NEW f, MarksOK(f), NEW p, NEW T, IsTimer(T), f.month <= T.at.months,
         Counted(f.num, f.month, p.num, MarksWindow),
         Counted(f.denom, f.month, p.denom, MarksWindow)
  PROVE  /\ Counted(UpdateMarks(f, T.at).num, T.at.months, p.num, MarksWindow)
         /\ Counted(UpdateMarks(f, T.at).denom, T.at.months, p.denom, MarksWindow)
<1> DEFINE n == Elapsed(T.at.months, f.month)
<1>1. /\ T.at \in [Units -> Periods] /\ T.at.months \in Periods /\ f.month \in Periods \cup {-1}
      /\ MarksWindow \in Nat \ {0} /\ MarksWindow < Counts
      /\ VecOK(f.num, Narrow, MarksWindow, FALSE) /\ VecOK(f.denom, Narrow, MarksWindow, TRUE)
  BY WindowFacts DEF IsTimer, MarksOK, Units
<1>2. /\ UpdateMarks(f, T.at).num = Moved(f.num, n, MarksWindow)
      /\ UpdateMarks(f, T.at).denom = Moved(f.denom, n, MarksWindow)
  BY <1>1, UpdateMarksShape
<1>3. Counted(Moved(f.num, n, MarksWindow), T.at.months, p.num, MarksWindow)
  BY <1>1, MovedCounted
<1>4. Counted(Moved(f.denom, n, MarksWindow), T.at.months, p.denom, MarksWindow)
  BY <1>1, MovedCounted
<1> QED
  BY <1>2, <1>3, <1>4

\* An update that finds the timer at or past the date of a field keeps its
\* tallies, whatever the type.
LEMMA UpdateTallied ==
  ASSUME NEW type \in Types, NEW f, Holds(type, f), NEW p, NEW T, IsTimer(T),
         ~Ahead(type, f, T), Tallied(type, f, p)
  PROVE  Tallied(type, Update(type, f, T), p)
<1>0. /\ T.at \in [Units -> Periods] /\ "months" \in Units
      /\ Periods \subseteq Int /\ Periods \cup {-1} \subseteq Int
  BY TimerAssumption DEF IsTimer, Periods, Units
<1>1. CASE type = "events"
  <2> DEFINE g == UpdateEvents(f, T.at)
  <2>1. EventsOK(f) /\ Update(type, f, T) = g
    BY <1>1, TypeCases DEF Update
  <2>2. \A x \in Units : f.date[x] <= T.at[x]
    <3>1. \A x \in Units : f.date[x] \in Periods \cup {-1} /\ T.at[x] \in Int
      BY <1>0, <2>1 DEF EventsOK
    <3>2. \A x \in Units : f.date[x] \in Int /\ T.at[x] \in Int
      BY <1>0, <3>1
    <3>3. \A x \in Units : ~(f.date[x] > T.at[x])
      BY <1>1 DEF Ahead
    <3> QED
      BY <3>2, <3>3
  <2>3. \A x \in Units : Counted(f.vec[x], f.date[x], p[x], Window[x])
    BY <1>1 DEF Tallied
  <2>4. \A x \in Units : Counted(g.vec[x], T.at[x], p[x], Window[x])
    BY <2>1, <2>2, <2>3, UpdateEventsTallied
  <2>5. g.date = T.at
    BY <1>0, <2>1, UpdateEventsShape
  <2> QED
    BY <1>1, <2>1, <2>4, <2>5 DEF Tallied
<1>2. CASE type = "marks"
  <2> DEFINE g == UpdateMarks(f, T.at)
  <2>1. MarksOK(f) /\ Update(type, f, T) = g
    BY <1>2, TypeCases DEF Update
  <2>2. f.month <= T.at.months
    <3>1. f.month \in Int /\ T.at["months"] \in Int
      BY <1>0, <2>1 DEF MarksOK
    <3>2. ~(f.month > T.at.months)
      BY <1>2 DEF Ahead
    <3> QED
      BY <3>1, <3>2
  <2>3. /\ Counted(f.num, f.month, p.num, MarksWindow)
        /\ Counted(f.denom, f.month, p.denom, MarksWindow)
    BY <1>2 DEF Tallied
  <2>4. /\ Counted(g.num, T.at.months, p.num, MarksWindow)
        /\ Counted(g.denom, T.at.months, p.denom, MarksWindow)
    BY <2>1, <2>2, <2>3, UpdateMarksTallied
  <2>5. g.month = T.at.months
    BY <1>0, <2>1, UpdateMarksShape
  <2> QED
    BY <1>2, <2>1, <2>4, <2>5 DEF Tallied
<1>3. CASE type \notin {"events", "marks"}
  BY <1>3 DEF Tallied
<1> QED
  BY <1>1, <1>2, <1>3

\* An addition to one vector, and to what it counts.
LEMMA SumCounted ==
  ASSUME NEW u \in BOOLEAN, NEW window \in Nat \ {0}, NEW v, VecOK(v, Narrow, window, u),
         NEW t \in Periods, NEW p \in [Periods -> Int], Counted(v, t, p, window),
         NEW n \in Ints32, p[t] + n \in Ints32,
         u => n <= Values[2] - Values[1],
         ~u => n \in Half(1) - Half(2) .. Half(2) - Half(1)
  PROVE  Counted(IncOrExpand(v, n, u), t, Counters(p, n, t, u), window)
<1> DEFINE y == IF u THEN Greater(0, p[t] + n) ELSE p[t] + n
           r == IncOrExpand(v, n, u)
<1>1. Count(v) \in Nat
  BY DEF VecOK, Vectors, Count
<1>2. First(v) = p[t]
  BY <1>1, FirstCounted
<1>3. r.samples[1] = y
  BY <1>2, IncOrExpandSum
<1>4. /\ Count(r) = Greater(1, Count(v))
      /\ \A i \in 2 .. Count(v) : r.samples[i] = v.samples[i]
  BY IncOrExpandShape
<1>5. y \in Ints32
  BY OneInt32 DEF Greater
<1>6. Counters(p, n, t, u) = [p EXCEPT ![t] = y]
  BY DEF Counters
<1> HIDE DEF r, y
<1>7. Counted(r, t, [p EXCEPT ![t] = y], window)
  BY <1>1, <1>3, <1>4, <1>5, AddedCounted
<1> QED
  BY <1>6, <1>7 DEF r

\* add() of events counts in the present hour, day and month.
LEMMA AddEventsTallied ==
  ASSUME NEW f, EventsOK(f), NEW p \in [Units -> [Periods -> Nat]], NEW T, IsTimer(T),
         \A x \in Units : Counted(f.vec[x], f.date[x], p[x], Window[x]),
         \A x \in Units : f.date[x] <= T.at[x],
         NEW n \in Ints32, n <= Values[2] - Values[1],
         \A x \in Units : p[x][T.at[x]] + n <= IntMax,
         NEW x \in Units
  PROVE  Counted(AddEvents(f, n, T).vec[x], T.at[x], Counters(p[x], n, T.at[x], TRUE), Window[x])
<1> DEFINE g == UpdateEvents(f, T.at)
           q == p[x]
           t == T.at[x]
<1>1. /\ T.at \in [Units -> Periods] /\ t \in Periods /\ q \in [Periods -> Nat]
      /\ q \in [Periods -> Int] /\ Window[x] \in Nat \ {0}
  BY WindowFacts DEF IsTimer
<1>2. VecOK(g.vec[x], Narrow, Window[x], TRUE)
  BY <1>1, UpdateEventsShape DEF EventsOK
<1>3. Counted(g.vec[x], t, q, Window[x])
  BY UpdateEventsTallied
<1>4. q[t] + n \in Ints32
  <2>1. q[t] \in Nat /\ q[t] + n <= IntMax
    BY <1>1
  <2>2. n \in -Half(4) .. IntMax /\ -Half(4) \in Int /\ IntMax \in Int
    BY WidthFacts DEF Ints32, Widths
  <2> HIDE DEF q, t
  <2> QED
    BY <2>1, <2>2 DEF Ints32
<1>5. AddEvents(f, n, T).vec[x] = IncOrExpand(g.vec[x], n, TRUE)
  BY AddEventsShape
<1> HIDE DEF g, q, t
<1>6. Counted(IncOrExpand(g.vec[x], n, TRUE), t, Counters(q, n, t, TRUE), Window[x])
  BY <1>1, <1>2, <1>3, <1>4, SumCounted
<1> QED
  BY <1>5, <1>6 DEF q, t

\* add() of marks counts in the present month.
LEMMA AddMarksTallied ==
  ASSUME NEW f, MarksOK(f), NEW p \in [num : [Periods -> Int], denom : [Periods -> Nat]],
         NEW T, IsTimer(T), f.month <= T.at.months,
         Counted(f.num, f.month, p.num, MarksWindow),
         Counted(f.denom, f.month, p.denom, MarksWindow),
         NEW n \in Ints32, n \in Half(1) - Half(2) .. Half(2) - Half(1),
         p.num[T.at.months] + n \in Ints32,
         p.denom[T.at.months] + 1 <= IntMax
  PROVE  /\ Counted(AddMarks(f, n, T).num, T.at.months,
                     Counters(p.num, n, T.at.months, FALSE), MarksWindow)
         /\ Counted(AddMarks(f, n, T).denom, T.at.months,
                     Counters(p.denom, 1, T.at.months, FALSE), MarksWindow)
<1> DEFINE g == UpdateMarks(f, T.at)
           t == T.at.months
           a == p.num
           b == p.denom
<1>1. /\ T.at \in [Units -> Periods] /\ t \in Periods /\ MarksWindow \in Nat \ {0}
      /\ a \in [Periods -> Int] /\ b \in [Periods -> Nat] /\ b \in [Periods -> Int]
  BY WindowFacts DEF IsTimer, Units
<1>2. VecOK(g.num, Narrow, MarksWindow, FALSE) /\ VecOK(g.denom, Narrow, MarksWindow, TRUE)
  BY <1>1, UpdateMarksShape DEF MarksOK
<1>3. Counted(g.num, t, a, MarksWindow) /\ Counted(g.denom, t, b, MarksWindow)
  BY UpdateMarksTallied
<1>4. /\ AddMarks(f, n, T).num = IncOrExpand(g.num, n, FALSE)
      /\ AddMarks(f, n, T).denom = IncOrExpand(g.denom, 1, TRUE)
  BY AddMarksShape
<1>5. a[t] + n \in Ints32
  BY DEF Ints32
<1>6. /\ b[t] \in Nat /\ b[t] + 1 \in Ints32 /\ 1 <= Values[2] - Values[1]
      /\ Greater(0, b[t] + 1) = b[t] + 1
  <2>1. b[t] \in Nat /\ b[t] + 1 <= IntMax
    BY <1>1
  <2>2. -Half(4) \in Int /\ -Half(4) <= 0 /\ IntMax \in Int /\ 1 <= Values[2] - Values[1]
    BY WidthFacts DEF Widths
  <2> HIDE DEF b, t
  <2> QED
    BY <2>1, <2>2 DEF Ints32, Greater
<1> HIDE DEF g, t, a, b
<1>7. Counted(IncOrExpand(g.num, n, FALSE), t, Counters(a, n, t, FALSE), MarksWindow)
  BY <1>1, <1>2, <1>3, <1>5, SumCounted
<1>8. Counted(IncOrExpand(g.denom, 1, TRUE), t, Counters(b, 1, t, TRUE), MarksWindow)
  BY <1>1, <1>2, <1>3, <1>6, OneInt32, SumCounted
<1>9. Counters(b, 1, t, TRUE) = Counters(b, 1, t, FALSE)
  BY <1>6 DEF Counters
<1> QED
  BY <1>4, <1>7, <1>8, <1>9 DEF t, a, b

\* A field of any type tallies after a command what its contract counts, if
\* the command has not gone beyond the samples nor met a clock set back.
LEMMA ApplyTallied ==
  ASSUME NEW type \in Types, NEW f, Holds(type, f), NEW p, PastHolds(type, p),
         NEW c \in FieldCommands(type), NEW T, IsTimer(T),
         ~Beyond(type, p, c, T), ~Ahead(type, f, T), Tallied(type, f, p)
  PROVE  Tallied(type, Apply(type, f, c, T), Recorded(type, p, c, T))
<1>0. /\ T.at \in [Units -> Periods] /\ "months" \in Units
      /\ Periods \subseteq Int /\ Periods \cup {-1} \subseteq Int /\ Ints32 \subseteq Int
      /\ Amounts \subseteq Ints32 /\ IntMax \in Int /\ Values[2] - Values[1] \in Int
  BY TimerAssumption, OneInt32, CommandFacts, WidthFacts DEF IsTimer, Periods, Units, Widths
<1>1. CASE c.op = "get"
  BY <1>1, UpdateTallied DEF Apply, Recorded
<1>2. CASE c.op = "clear"
  BY <1>2, ClearTallied DEF Apply, Recorded
<1>3. CASE c.op = "add" /\ c.n \in Amounts /\ type = "events"
  <2> DEFINE r == AddEvents(f, c.n, T)
             q == [x \in Units |-> Counters(p[x], c.n, T.at[x], TRUE)]
  <2>1. Apply(type, f, c, T) = r
    BY <1>3 DEF Apply, Add, Ints, Logs
  <2>2. Recorded(type, p, c, T) = q
    BY <1>3 DEF Recorded, Logs
  <2>3. EventsOK(f) /\ p \in [Units -> [Periods -> Nat]] /\ c.n \in Ints32
    BY <1>0, <1>3, TypeCases DEF PastHolds, Logs
  <2>4. \A x \in Units : f.date[x] <= T.at[x]
    <3>1. \A x \in Units : f.date[x] \in Periods \cup {-1} /\ T.at[x] \in Int
      BY <1>0, <2>3 DEF EventsOK
    <3>2. \A x \in Units : f.date[x] \in Int /\ T.at[x] \in Int
      BY <1>0, <3>1
    <3>3. \A x \in Units : ~(f.date[x] > T.at[x])
      BY <1>3 DEF Ahead
    <3> QED
      BY <3>2, <3>3
  <2>5. c.n <= Values[2] - Values[1] /\ \A x \in Units : p[x][T.at[x]] + c.n <= IntMax
    <3>1. ~(c.n > Values[2] - Values[1]) /\ \A x \in Units : ~(p[x][T.at[x]] + c.n > IntMax)
      BY <1>3 DEF Beyond
    <3>2. c.n \in Int /\ \A x \in Units : p[x][T.at[x]] \in Nat
      BY <1>0, <2>3
    <3> QED
      BY <1>0, <3>1, <3>2
  <2>6. \A x \in Units : Counted(f.vec[x], f.date[x], p[x], Window[x])
    BY <1>3 DEF Tallied
  <2>7. ASSUME NEW x \in Units
        PROVE  Counted(r.vec[x], T.at[x], Counters(p[x], c.n, T.at[x], TRUE), Window[x])
    BY <2>3, <2>4, <2>5, <2>6, AddEventsTallied
  <2>8. r.date = T.at
    BY <2>3, AddEventsShape
  <2> HIDE DEF r
  <2> QED
    BY <1>3, <2>1, <2>2, <2>7, <2>8 DEF Tallied
<1>4. CASE c.op = "add" /\ c.n \in Amounts /\ type = "marks"
  <2> DEFINE r == AddMarks(f, c.n, T)
             t == T.at.months
             q == [num   |-> Counters(p.num, c.n, t, FALSE),
                   denom |-> Counters(p.denom, 1, t, FALSE)]
  <2>1. Apply(type, f, c, T) = r
    BY <1>4 DEF Apply, Add, Ints, Logs
  <2>2. Recorded(type, p, c, T) = q
    BY <1>4 DEF Recorded, Logs
  <2>3. /\ MarksOK(f) /\ p \in [num : [Periods -> Int], denom : [Periods -> Nat]]
        /\ c.n \in Ints32 /\ t \in Periods /\ t \in Int
    BY <1>0, <1>4, TypeCases DEF PastHolds, Logs
  <2>4. f.month <= t
    <3>1. f.month \in Int
      BY <1>0, <2>3 DEF MarksOK
    <3>2. ~(f.month > t)
      BY <1>4 DEF Ahead
    <3> QED
      BY <2>3, <3>1, <3>2
  <2>5. /\ c.n \in Half(1) - Half(2) .. Half(2) - Half(1)
        /\ p.num[t] + c.n \in Ints32
        /\ p.denom[t] + 1 <= IntMax
    <3>1. /\ c.n \in Half(1) - Half(2) .. Half(2) - Half(1)
          /\ p.num[t] + c.n \in Ints32
          /\ ~(p.denom[t] + 1 > IntMax)
      BY <1>4 DEF Beyond
    <3>2. p.denom[t] \in Nat
      BY <2>3
    <3> QED
      BY <1>0, <3>1, <3>2
  <2>6. Counted(f.num, f.month, p.num, MarksWindow) /\ Counted(f.denom, f.month, p.denom, MarksWindow)
    BY <1>4 DEF Tallied
  <2>7. /\ Counted(r.num, t, Counters(p.num, c.n, t, FALSE), MarksWindow)
        /\ Counted(r.denom, t, Counters(p.denom, 1, t, FALSE), MarksWindow)
    BY <2>3, <2>4, <2>5, <2>6, AddMarksTallied
  <2>8. r.month = t
    BY <2>3, AddMarksShape
  <2>9. /\ q.num = Counters(p.num, c.n, t, FALSE)
        /\ q.denom = Counters(p.denom, 1, t, FALSE)
    OBVIOUS
  <2> HIDE DEF r, t, q
  <2>10. Counted(r.num, r.month, q.num, MarksWindow) /\ Counted(r.denom, r.month, q.denom, MarksWindow)
    BY <2>7, <2>8, <2>9
  <2> QED
    BY <1>4, <2>1, <2>2, <2>10 DEF Tallied
<1>5. CASE c.op = "total_set" /\ type = "events"
  <2>1. Apply(type, f, c, T) = [f EXCEPT !.total = c.n]
    BY <1>5 DEF Apply
  <2>2. Recorded(type, p, c, T) = p
    BY <1>5 DEF Recorded
  <2>3. EventsOK(f)
    BY <1>5, TypeCases
  <2>4. /\ [f EXCEPT !.total = c.n].vec = f.vec /\ [f EXCEPT !.total = c.n].date = f.date
    BY <2>3 DEF EventsOK
  <2> QED
    BY <1>5, <2>1, <2>2, <2>4 DEF Tallied
<1>6. CASE type \notin {"events", "marks"}
  BY <1>6 DEF Tallied
<1> QED
  BY <1>1, <1>2, <1>3, <1>4, <1>5, <1>6, CommandCases DEF Ints, Logs

-----------------------------------------------------------------------------
\* Logs: what is kept is a beginning of what was inserted, newest first.

Beginning(f, p) ==
  /\ Count(f.items) = Count(f.dates) /\ Count(f.items) <= Len(p)
  /\ \A k \in 1 .. Count(f.items) : /\ f.items.samples[k] = Cast(p[k][1], 4, TRUE)
                                    /\ f.dates.samples[k] = p[k][2]

Kept(f, p) == Beginning(f, p) /\ (p # <<>> => Count(f.items) > 0)

Entries == Ints32 \X (0 .. IntMax)

\* An int comes back from the sample it is kept in.
LEMMA IntKept ==
  ASSUME NEW n \in Ints32
  PROVE  ToInt(Cast(n, 4, TRUE)) = n
<1>1. Values[4] \in Nat \ {0} /\ Half(4) \in Nat \ {0} /\ Values[4] = 2 * Half(4)
        /\ n \in -Half(4) .. Half(4) - 1 /\ n \in Int
  BY WidthFacts, OneInt32 DEF Widths, Ints32
<1>2. CASE n >= 0
  <2>1. n % Values[4] = n
    BY <1>1, <1>2, RemainderSame
  <2> QED
    BY <2>1, ToIntSame DEF Cast
<1>3. CASE n < 0
  <2>1. n % Values[4] = n + Values[4]
    BY <1>1, <1>3, RemainderBelow
  <2>2. n + Values[4] + Half(4) \in Values[4] .. 2 * Values[4] - 1
    BY <1>1, <1>3
  <2>3. (n + Values[4] + Half(4)) % Values[4] = n + Values[4] + Half(4) - Values[4]
    BY <1>1, <2>2, RemainderAbove
  <2> QED
    BY <1>1, <2>1, <2>3 DEF ToInt, Cast
<1>4. n >= 0 \/ n < 0
  BY <1>1
<1> QED
  BY <1>2, <1>3, <1>4

\* So what is kept reads as what was inserted.
LEMMA KeptReads ==
  ASSUME NEW f, LogOK("ulog", f), NEW p \in Seq(Entries), Beginning(f, p),
         NEW k \in 1 .. Count(f.items)
  PROVE  <<Sample(f.items, k - 1), Sample(f.dates, k - 1)>> = p[k]
<1>1. /\ Count(f.items) \in Nat /\ k \in 1 .. Len(p) /\ Len(p) \in Nat /\ k \in Int
      /\ k - 1 < Count(f.items) /\ k - 1 < Count(f.dates) /\ (k - 1) + 1 = k
  BY DEF LogOK, Vectors, Count, Beginning
<1>2. p[k] \in Ints32 \X (0 .. IntMax)
  BY <1>1 DEF Entries
<1>3. p[k] = <<p[k][1], p[k][2]>> /\ p[k][1] \in Ints32 /\ p[k][2] \in 0 .. IntMax
  BY <1>2
<1>4. p[k][2] \in Ints32
  BY <1>3, CommandFacts
<1>5. f.items.samples[k] = Cast(p[k][1], 4, TRUE) /\ f.dates.samples[k] = p[k][2]
  BY DEF Beginning
<1>6. Sample(f.items, k - 1) = p[k][1]
  BY <1>1, <1>3, <1>5, IntKept DEF Sample
<1>7. Sample(f.dates, k - 1) = p[k][2]
  BY <1>1, <1>4, <1>5, ToIntSame DEF Sample
<1> QED
  BY <1>3, <1>6, <1>7

\* The entry that unique takes out is the first of the item, if there is one.
LEMMA FirstOf ==
  ASSUME NEW p \in Seq(Entries), NEW n \in Int, n # -1
  PROVE  \/ /\ \A i \in 1 .. Len(p) : p[i][1] # n
            /\ WithoutNewest(p, n) = p
         \/ \E k \in 1 .. Len(p) : /\ p[k][1] = n
                                  /\ \A j \in 1 .. Len(p) : p[j][1] = n => k <= j
                                  /\ WithoutNewest(p, n) = RemoveAt(p, k)
<1> DEFINE I == {i \in 1 .. Len(p) : p[i][1] = n}
           m == CHOOSE x \in I : \A y \in I : x =< y
<1>1. WithoutNewest(p, n) = LET k == IF I # {} THEN m ELSE 0
                            IN  IF k = 0 THEN p ELSE RemoveAt(p, k)
  BY DEF WithoutNewest, SelectInSeq, Min
<1>2. CASE I = {}
  BY <1>1, <1>2
<1>3. CASE I # {}
  <2>1. I \subseteq 1 .. Len(p) /\ I \subseteq Nat /\ \A i \in I : p[i][1] = n
    OBVIOUS
  <2>2. \A j \in 1 .. Len(p) : p[j][1] = n => j \in I
    OBVIOUS
  <2> HIDE DEF I
  <2>3. PICK i \in I : \A j \in I \ {i} : <<j, i>> \notin OpToRel(<, Nat)
    BY <1>3, <2>1, NatLessThanWellFounded, WFMin
  <2>4. \A j \in I : i <= j
    <3> SUFFICES ASSUME NEW j \in I, j # i PROVE i <= j
      BY <2>1
    <3>1. <<j, i>> \notin OpToRel(<, Nat) /\ j \in Nat /\ i \in Nat
      BY <2>1, <2>3
    <3> QED
      BY <3>1 DEF OpToRel
  <2>5. m \in I /\ \A j \in I : m <= j
    BY <2>4
  <2> HIDE DEF m
  <2>6. m \in 1 .. Len(p) /\ m # 0 /\ p[m][1] = n
    BY <2>1, <2>5
  <2>7. WithoutNewest(p, n) = RemoveAt(p, m)
    BY <1>1, <1>3, <2>6
  <2> QED
    BY <2>2, <2>5, <2>6, <2>7
<1> QED
  BY <1>2, <1>3

\* insert with unique: what is left is a beginning of what is left.
LEMMA DeleteKeeps ==
  ASSUME NEW f, LogOK("ulog", f), NEW p \in Seq(Entries), Beginning(f, p), NEW n \in Ints32
  PROVE  /\ WithoutNewest(p, n) \in Seq(Entries)
         /\ Beginning(LogDelete(f, n), WithoutNewest(p, n))
<1> DEFINE pos == Find(f.items, n, TRUE)
           at  == {i \in 1 .. Count(f.items) : f.items.samples[i] = Cast(n, f.items.width, TRUE)}
           c   == Count(f.items)
<1>1. /\ f.items \in Vectors /\ f.dates \in Vectors /\ f.items.width = 4
      /\ c \in Nat /\ c = Count(f.dates) /\ c <= Len(p) /\ Len(p) \in Nat /\ n \in Int
  BY OneInt32 DEF LogOK, VecOK, Beginning, Vectors, Count
<1>2. \A k \in 1 .. c : /\ f.items.samples[k] = Cast(p[k][1], 4, TRUE)
                        /\ f.dates.samples[k] = p[k][2]
  BY DEF Beginning
<1>3. CASE n = -1
  <2>1. WithoutNewest(p, n) = p /\ LogDelete(f, n) = f
    BY <1>3 DEF WithoutNewest, LogDelete
  <2> QED
    BY <2>1
<1>4. CASE n # -1
  <2>1. LogDelete(f, n) = [items |-> Delete(f.items, pos), dates |-> Delete(f.dates, pos)]
    BY <1>4 DEF LogDelete
  <2>2. \/ at = {} /\ pos = -1
        \/ \E k \in at : (\A j \in at : k <= j) /\ pos = k - 1
    BY <1>1, FindRange
  <2>3. \A i \in 1 .. c : i \in at <=> p[i][1] = n
    <3> SUFFICES ASSUME NEW i \in 1 .. c PROVE i \in at <=> p[i][1] = n
      OBVIOUS
    <3>1. p[i] \in Entries
      BY <1>1
    <3>2. p[i][1] \in Ints32
      BY <3>1 DEF Entries
    <3>3. ToInt(Cast(p[i][1], 4, TRUE)) = p[i][1] /\ ToInt(Cast(n, 4, TRUE)) = n
      BY <3>2, IntKept
    <3> QED
      BY <1>1, <1>2, <3>3
  <2>4. at \subseteq 1 .. c
    OBVIOUS
  <2> HIDE DEF pos, at
  <2>5. \/ /\ \A i \in 1 .. Len(p) : p[i][1] # n
           /\ WithoutNewest(p, n) = p
        \/ \E k \in 1 .. Len(p) : /\ p[k][1] = n
                                 /\ \A j \in 1 .. Len(p) : p[j][1] = n => k <= j
                                 /\ WithoutNewest(p, n) = RemoveAt(p, k)
    BY <1>1, <1>4, FirstOf
  <2>6. CASE at = {} /\ pos = -1
    <3>1. Delete(f.items, pos) = f.items /\ Delete(f.dates, pos) = f.dates
      BY <1>1, <2>6 DEF Delete
    <3>2. LogDelete(f, n).items = f.items /\ LogDelete(f, n).dates = f.dates
      BY <2>1, <3>1
    <3>3. CASE WithoutNewest(p, n) = p
      BY <3>2, <3>3 DEF Beginning
    <3>4. CASE WithoutNewest(p, n) # p
      <4>1. PICK k \in 1 .. Len(p) : p[k][1] = n /\ WithoutNewest(p, n) = RemoveAt(p, k)
        BY <2>5, <3>4
      <4>2. k > c /\ k \in Nat
        BY <1>1, <2>3, <2>6, <4>1
      <4> DEFINE r == RemoveAt(p, k)
      <4>3. /\ r \in Seq(Entries) /\ Len(r) = Len(p) - 1
            /\ \A i \in 1 .. Len(p) - 1 : r[i] = IF i < k THEN p[i] ELSE p[i + 1]
        BY RemoveAtShape
      <4> HIDE DEF r
      <4>4. c <= Len(r) /\ \A i \in 1 .. c : r[i] = p[i]
        BY <1>1, <4>2, <4>3
      <4> DEFINE g == LogDelete(f, n)
      <4> HIDE DEF g
      <4>5. Count(g.items) = c /\ Count(g.dates) = c
        BY <1>1, <3>2 DEF g
      <4>6. \A i \in 1 .. c : /\ g.items.samples[i] = Cast(r[i][1], 4, TRUE)
                              /\ g.dates.samples[i] = r[i][2]
        BY <1>2, <3>2, <4>4 DEF g
      <4>7. Beginning(g, r)
        BY <4>4, <4>5, <4>6 DEF Beginning
      <4> QED
        BY <4>1, <4>3, <4>7 DEF g, r
    <3> QED
      BY <3>3, <3>4
  <2>7. ASSUME NEW k \in at, \A j \in at : k <= j, pos = k - 1
        PROVE  /\ WithoutNewest(p, n) \in Seq(Entries)
               /\ Beginning(LogDelete(f, n), WithoutNewest(p, n))
    <3>1. k \in 1 .. c /\ k \in 1 .. Len(p) /\ p[k][1] = n
      BY <1>1, <2>3, <2>4, <2>7
    <3>2. PICK m \in 1 .. Len(p) : /\ p[m][1] = n
                                   /\ \A j \in 1 .. Len(p) : p[j][1] = n => m <= j
                                   /\ WithoutNewest(p, n) = RemoveAt(p, m)
      BY <2>5, <3>1
    <3>3. m = k
      <4>1. m <= k /\ m \in 1 .. c
        BY <1>1, <3>1, <3>2
      <4>2. k <= m
        BY <2>3, <2>7, <3>2, <4>1
      <4> QED
        BY <3>1, <4>1, <4>2
    <3> DEFINE r == RemoveAt(p, k)
               a == Delete(f.items, k - 1)
               b == Delete(f.dates, k - 1)
    <3>4. /\ r \in Seq(Entries) /\ Len(r) = Len(p) - 1
          /\ \A i \in 1 .. Len(p) - 1 : r[i] = IF i < k THEN p[i] ELSE p[i + 1]
      BY <3>1, RemoveAtShape
    <3>5. k - 1 \in 0 .. c - 1 /\ k - 1 \in 0 .. Count(f.dates) - 1 /\ (k - 1) + 1 = k
      BY <1>1, <3>1
    <3>6. /\ Count(a) = c - 1
          /\ \A i \in 1 .. c - 1 :
               a.samples[i] = IF i < (k - 1) + 1 THEN f.items.samples[i] ELSE f.items.samples[i + 1]
      BY <1>1, <3>5, DeleteShape
    <3>7. /\ Count(b) = Count(f.dates) - 1
          /\ \A i \in 1 .. Count(f.dates) - 1 :
               b.samples[i] = IF i < (k - 1) + 1 THEN f.dates.samples[i] ELSE f.dates.samples[i + 1]
      BY <1>1, <3>5, DeleteShape
    <3>8. LogDelete(f, n).items = a /\ LogDelete(f, n).dates = b
      BY <2>1, <2>7
    <3> HIDE DEF r, a, b
    <3>9. \A i \in 1 .. c - 1 : /\ a.samples[i] = Cast(r[i][1], 4, TRUE)
                                /\ b.samples[i] = r[i][2]
      <4> SUFFICES ASSUME NEW i \in 1 .. c - 1
                   PROVE  a.samples[i] = Cast(r[i][1], 4, TRUE) /\ b.samples[i] = r[i][2]
        OBVIOUS
      <4>1. i \in 1 .. Len(p) - 1 /\ i \in 1 .. c /\ i + 1 \in 1 .. c /\ i \in Int
        BY <1>1
      <4>2. CASE i < k
        BY <1>1, <1>2, <3>4, <3>5, <3>6, <3>7, <4>1, <4>2
      <4>3. CASE ~(i < k)
        BY <1>1, <1>2, <3>4, <3>5, <3>6, <3>7, <4>1, <4>3
      <4> QED
        BY <4>2, <4>3
    <3>10. Count(a) = Count(b) /\ Count(a) <= Len(r)
      BY <1>1, <3>4, <3>6, <3>7
    <3> QED
      BY <3>2, <3>3, <3>4, <3>6, <3>8, <3>9, <3>10 DEF Beginning, r
  <2> QED
    BY <2>2, <2>6, <2>7
<1> QED
  BY <1>3, <1>4

\* insert and add: the new entry is there, before what was there.
LEMMA InsertKeeps ==
  ASSUME NEW f, LogOK("ulog", f), NEW p \in Seq(Entries), Beginning(f, p),
         NEW n \in Ints32, NEW d \in 0 .. IntMax
  PROVE  /\ <<<<n, d>>>> \o p \in Seq(Entries)
         /\ Kept(Insert("ulog", f, n, d), <<<<n, d>>>> \o p)
<1> DEFINE r == Insert("ulog", f, n, d)
           q == <<<<n, d>>>> \o p
           len == LogWindow["ulog"]
           c == Count(f.items)
<1>1. /\ "ulog" \in Logs /\ len \in Nat \ {0} /\ len < Counts /\ Counts \in Nat \ {0}
      /\ c \in Nat /\ c = Count(f.dates) /\ c <= Len(p) /\ Len(p) \in Nat
  BY WindowFacts DEF LogOK, VecOK, Beginning, Vectors, Count, Logs
<1>2. /\ Count(r.items) = Lesser(c + 1, len) % Counts
      /\ Count(r.dates) = Lesser(Count(f.dates) + 1, len) % Counts
      /\ \A i \in 1 .. Count(r.items) :
           /\ r.items.samples[i] = IF i = 1 THEN Cast(n, 4, TRUE) ELSE f.items.samples[i - 1]
           /\ i # 1 => i - 1 \in 1 .. c
      /\ \A i \in 1 .. Count(r.dates) :
           /\ r.dates.samples[i] = IF i = 1 THEN d ELSE f.dates.samples[i - 1]
           /\ i # 1 => i - 1 \in 1 .. Count(f.dates)
  <2>1. n \in Ints32 /\ d \in 0 .. IntMax /\ LogOK("ulog", f)
    OBVIOUS
  <2>2. LET g == Insert("ulog", f, n, d)
            l == LogWindow["ulog"]
        IN  /\ LogOK("ulog", g)
            /\ Count(g.items) = Lesser(Count(f.items) + 1, l) % Counts
            /\ Count(g.dates) = Lesser(Count(f.dates) + 1, l) % Counts
            /\ \A i \in 1 .. Count(g.items) :
                 /\ g.items.samples[i] = IF i = 1 THEN Cast(n, 4, TRUE) ELSE f.items.samples[i - 1]
                 /\ i # 1 => i - 1 \in 1 .. Count(f.items)
            /\ \A i \in 1 .. Count(g.dates) :
                 /\ g.dates.samples[i] = IF i = 1 THEN d ELSE f.dates.samples[i - 1]
                 /\ i # 1 => i - 1 \in 1 .. Count(f.dates)
    BY ONLY <1>1, <2>1, InsertShape
  <2> QED
    BY <2>2, Zenon
<1>3. Lesser(c + 1, len) \in 1 .. Counts - 1 /\ Lesser(c + 1, len) <= c + 1
  BY <1>1 DEF Lesser
<1>4. Lesser(c + 1, len) % Counts = Lesser(c + 1, len)
  BY <1>1, <1>3, RemainderSame
<1>5. <<n, d>> \in Entries
  BY DEF Entries
<1>6. /\ q \in Seq(Entries) /\ Len(q) = Len(p) + 1 /\ q[1] = <<n, d>>
      /\ \A i \in 2 .. Len(p) + 1 : q[i] = p[i - 1]
  BY <1>1, <1>5
<1> HIDE DEF r, q
<1>7. ASSUME NEW k \in 1 .. Count(r.items)
      PROVE  r.items.samples[k] = Cast(q[k][1], 4, TRUE) /\ r.dates.samples[k] = q[k][2]
  <2>1. k \in 1 .. Count(r.dates) /\ k \in Int
    BY <1>1, <1>2
  <2>2. CASE k = 1
    <3>1. q[k] = <<n, d>> /\ <<n, d>>[1] = n /\ <<n, d>>[2] = d
      BY <1>6, <2>2
    <3>2. r.items.samples[k] = Cast(n, 4, TRUE) /\ r.dates.samples[k] = d
      BY <1>2, <2>1, <2>2
    <3> QED
      BY <3>1, <3>2
  <2>3. CASE k # 1
    <3>1. k - 1 \in 1 .. c /\ k \in 2 .. Len(p) + 1
      BY <1>1, <1>2, <2>1, <2>3
    <3>2. r.items.samples[k] = f.items.samples[k - 1] /\ r.dates.samples[k] = f.dates.samples[k - 1]
      BY <1>2, <2>1, <2>3
    <3>3. f.items.samples[k - 1] = Cast(p[k - 1][1], 4, TRUE) /\ f.dates.samples[k - 1] = p[k - 1][2]
      BY <3>1 DEF Beginning
    <3> QED
      BY <1>6, <3>1, <3>2, <3>3
  <2> QED
    BY <2>2, <2>3
<1>8. Count(r.items) = Count(r.dates) /\ Count(r.items) <= Len(q) /\ Count(r.items) > 0
  BY <1>1, <1>2, <1>3, <1>4, <1>6
<1>9. Kept(r, q)
  BY <1>7, <1>8 DEF Kept, Beginning
<1> QED
  BY <1>6, <1>9 DEF r, q

\* An insert leaves a list of entries.
LEMMA WithoutNewestType ==
  ASSUME NEW p \in Seq(Entries), NEW n \in Int
  PROVE  WithoutNewest(p, n) \in Seq(Entries)
<1>1. CASE n = -1
  BY <1>1 DEF WithoutNewest
<1>2. CASE n # -1
  <2>1. CASE WithoutNewest(p, n) = p
    BY <2>1
  <2>2. CASE WithoutNewest(p, n) # p
    <3>1. PICK k \in 1 .. Len(p) : WithoutNewest(p, n) = RemoveAt(p, k)
      BY <1>2, <2>2, FirstOf
    <3> QED
      BY <3>1, RemoveAtShape
  <2> QED
    BY <2>1, <2>2
<1> QED
  BY <1>1, <1>2

\* The counter of one period, and of all of them.
LEMMA CountersType ==
  ASSUME NEW S \in {Nat, Int}, NEW p \in [Periods -> S], NEW n \in Int, NEW t \in Periods
  PROVE  Counters(p, n, t, TRUE) \in [Periods -> S] /\ Counters(p, n, t, FALSE) \in [Periods -> Int]
<1>1. p[t] \in Int /\ p[t] + n \in Int /\ Greater(0, p[t] + n) \in Nat
  BY DEF Greater
<1>2. Counters(p, n, t, TRUE) = [p EXCEPT ![t] = Greater(0, p[t] + n)]
  BY DEF Counters
<1>3. Counters(p, n, t, FALSE) = [p EXCEPT ![t] = p[t] + n]
  BY DEF Counters
<1>4. p \in [Periods -> Int] /\ Greater(0, p[t] + n) \in S
  BY <1>1
<1> QED
  BY <1>1, <1>2, <1>3, <1>4

-----------------------------------------------------------------------------
\* What a field holds, with what its contract says it holds.

Sound(type, f, p, b) ==
  /\ Holds(type, f) /\ PastHolds(type, p)
  /\ type = "ulog" => Kept(f, p)
  /\ ~b => Tallied(type, f, p)

\* What the contract makes of a command.
LEMMA RecordedHolds ==
  ASSUME NEW type \in Types, NEW p, PastHolds(type, p), NEW c \in FieldCommands(type),
         NEW T, IsTimer(T)
  PROVE  PastHolds(type, Recorded(type, p, c, T))
<1>1. /\ T.at \in [Units -> Periods] /\ T.now \in Periods
      /\ T.now \in 0 .. IntMax /\ 0 \in 0 .. IntMax
  BY CommandFacts DEF IsTimer
<1>2. CASE c.op = "clear"
  <2>1. Recorded(type, p, c, T) = NewPast(type)
    BY <1>2 DEF Recorded
  <2> QED
    BY <2>1, NewPastHolds
<1>3. CASE c.op = "add" /\ c.n \in Amounts /\ type = "events"
  <2>1. Recorded(type, p, c, T) = [x \in Units |-> Counters(p[x], c.n, T.at[x], TRUE)]
    BY <1>3 DEF Recorded, Logs
  <2>2. p \in [Units -> [Periods -> Nat]] /\ c.n \in Int
    BY <1>3, CommandFacts, OneInt32 DEF PastHolds, Logs
  <2>3. ASSUME NEW x \in Units
        PROVE  Counters(p[x], c.n, T.at[x], TRUE) \in [Periods -> Nat]
    <3>1. p[x] \in [Periods -> Nat] /\ T.at[x] \in Periods
      BY <1>1, <2>2
    <3> QED
      BY <2>2, <3>1, CountersType
  <2>4. [x \in Units |-> Counters(p[x], c.n, T.at[x], TRUE)] \in [Units -> [Periods -> Nat]]
    BY <2>3
  <2> QED
    BY <1>3, <2>1, <2>4 DEF PastHolds, Logs
<1>4. CASE c.op = "add" /\ c.n \in Amounts /\ type = "marks"
  <2>1. Recorded(type, p, c, T) = [num   |-> Counters(p.num, c.n, T.at.months, FALSE),
                                   denom |-> Counters(p.denom, 1, T.at.months, FALSE)]
    BY <1>4 DEF Recorded, Logs
  <2>2. /\ p \in [num : [Periods -> Int], denom : [Periods -> Nat]]
        /\ c.n \in Int /\ T.at.months \in Periods /\ 1 \in Int
    BY <1>1, <1>4, CommandFacts, OneInt32 DEF PastHolds, Logs, Units
  <2>3. Counters(p.num, c.n, T.at.months, FALSE) \in [Periods -> Int]
    BY <2>2, CountersType
  <2>4. Counters(p.denom, 1, T.at.months, FALSE) \in [Periods -> Nat]
    <3>1. /\ p.denom \in [Periods -> Nat]
          /\ p.denom[T.at.months] + 1 \in Nat
      BY <2>2
    <3>2. Counters(p.denom, 1, T.at.months, FALSE)
            = [p.denom EXCEPT ![T.at.months] = p.denom[T.at.months] + 1]
      BY DEF Counters
    <3> QED
      BY <3>1, <3>2
  <2>5. [num   |-> Counters(p.num, c.n, T.at.months, FALSE),
         denom |-> Counters(p.denom, 1, T.at.months, FALSE)]
          \in [num : [Periods -> Int], denom : [Periods -> Nat]]
    BY <2>3, <2>4
  <2> QED
    BY <1>4, <2>1, <2>5 DEF PastHolds, Logs
<1>5. CASE c.op = "add" /\ c.n \in Amounts /\ type \in Logs
  <2>1. Recorded(type, p, c, T) = <<<<c.n, T.now>>>> \o p
    BY <1>5 DEF Recorded, Logs
  <2>2. p \in Seq(Entries) /\ <<c.n, T.now>> \in Entries
    BY <1>1, <1>5, CommandFacts DEF PastHolds, Logs, Entries
  <2>3. <<<<c.n, T.now>>>> \o p \in Seq(Entries)
    BY <2>2
  <2> QED
    BY <1>5, <2>1, <2>3 DEF PastHolds, Logs, Entries
<1>6. CASE c.op = "insert" /\ type \in Logs /\ c.n \in Items
  <2> DEFINE q == IF c.unique THEN WithoutNewest(p, c.n) ELSE p
             e == <<c.n, IF c.now THEN T.now ELSE 0>>
  <2>1. Recorded(type, p, c, T) = <<e>> \o q
    BY <1>6 DEF Recorded
  <2>2. p \in Seq(Entries) /\ e \in Entries /\ c.n \in Int
    BY <1>1, <1>6, CommandFacts, OneInt32 DEF PastHolds, Logs, Entries
  <2>3. q \in Seq(Entries)
    BY <2>2, WithoutNewestType
  <2> HIDE DEF q, e
  <2>4. <<e>> \o q \in Seq(Entries)
    BY <2>2, <2>3
  <2> QED
    BY <1>6, <2>1, <2>4 DEF PastHolds, Logs, Entries
<1>7. CASE Recorded(type, p, c, T) = p
  BY <1>7
<1>8. CASE c.op \notin {"clear", "add", "insert"}
  <2>1. Recorded(type, p, c, T) = p
    BY <1>8 DEF Recorded
  <2> QED
    BY <2>1
<1>9. CASE c.op = "add" /\ type \notin {"events", "marks"} \cup Logs
  <2>1. Recorded(type, p, c, T) = p
    BY <1>9 DEF Recorded
  <2> QED
    BY <2>1
<1> QED
  BY <1>2, <1>3, <1>4, <1>5, <1>6, <1>8, <1>9, CommandCases

\* A new log keeps nothing.
LEMMA NothingKept == Kept(NewLog, <<>>)
<1>1. /\ NewLog.items.samples = <<>> /\ NewLog.dates.samples = <<>>
      /\ Len(<<>>) = 0
  BY DEF NewLog, Empty
<1>2. Count(NewLog.items) = 0 /\ Count(NewLog.dates) = 0
  BY <1>1 DEF Count
<1> QED
  BY <1>1, <1>2 DEF Kept, Beginning

\* A new field,
LEMMA NewSound ==
  ASSUME NEW type \in Types, NEW b \in BOOLEAN
  PROVE  Sound(type, New(type), NewPast(type), b)
<1>1. Holds(type, New(type)) /\ PastHolds(type, NewPast(type))
  BY NewHolds, NewPastHolds
<1>2. Tallied(type, New(type), NewPast(type))
  BY <1>1, ClearTallied
<1>3. type = "ulog" => Kept(New(type), NewPast(type))
  BY NothingKept DEF New, NewPast, Logs
<1> QED
  BY <1>1, <1>2, <1>3 DEF Sound

\* a command on it,
LEMMA ApplySound ==
  ASSUME NEW type \in Types, NEW f, NEW p, NEW b \in BOOLEAN, Sound(type, f, p, b),
         NEW c \in FieldCommands(type), NEW T, IsTimer(T)
  PROVE  Sound(type, Apply(type, f, c, T), Recorded(type, p, c, T),
               b \/ Beyond(type, p, c, T) \/ Ahead(type, f, T))
<1> DEFINE g == Apply(type, f, c, T)
           q == Recorded(type, p, c, T)
<1>0. Holds(type, f) /\ PastHolds(type, p) /\ (~b => Tallied(type, f, p))
  BY DEF Sound
<1>1. Holds(type, g)
  BY <1>0, ApplyHolds
<1>2. PastHolds(type, q)
  BY <1>0, RecordedHolds
<1>3. ASSUME ~b, ~Beyond(type, p, c, T), ~Ahead(type, f, T)
      PROVE  Tallied(type, g, q)
  BY <1>0, <1>3, ApplyTallied
<1>4. ASSUME type = "ulog"
      PROVE  Kept(g, q)
  <2>1. /\ LogOK("ulog", f) /\ p \in Seq(Entries) /\ Kept(f, p) /\ Beginning(f, p)
        /\ type \in Logs /\ type \notin Ints
        /\ T.now \in 0 .. IntMax /\ 0 \in 0 .. IntMax
    BY <1>0, <1>4, TypeCases, CommandFacts DEF PastHolds, Entries, Sound, Kept, IsTimer
  <2>2. CASE c.op = "get"
    BY <1>4, <2>1, <2>2 DEF Apply, Update, Recorded
  <2>3. CASE c.op = "clear"
    <3>1. g = NewLog /\ q = <<>>
      BY <1>0, <1>4, <2>1, <2>3, ClearHolds, TypeCases DEF Apply, Recorded, NewPast
    <3> HIDE DEF g, q
    <3> QED
      BY <3>1, NothingKept
  <2>4. CASE c.op = "add" /\ c.n \in Amounts
    <3>1. g = Insert("ulog", f, c.n, T.now) /\ q = <<<<c.n, T.now>>>> \o p
      BY <1>4, <2>1, <2>4, TypeCases DEF Apply, Add, Recorded
    <3>2. c.n \in Ints32
      BY <2>4, CommandFacts
    <3> HIDE DEF g, q
    <3> QED
      BY <2>1, <3>1, <3>2, InsertKeeps
  <2>5. CASE c.op = "set"
    BY <1>4, <2>1, <2>5 DEF Apply, Set, Recorded
  <2>6. CASE c.op = "insert" /\ c.n \in Items
    <3> DEFINE h == IF c.unique THEN LogDelete(f, c.n) ELSE f
               r == IF c.unique THEN WithoutNewest(p, c.n) ELSE p
               d == IF c.now THEN T.now ELSE 0
    <3>1. g = Insert("ulog", h, c.n, d) /\ q = <<<<c.n, d>>>> \o r
      BY <1>4, <2>6 DEF Apply, Recorded
    <3>2. c.n \in Ints32 /\ c.n \in Int /\ d \in 0 .. IntMax
      BY <2>1, <2>6, CommandFacts, OneInt32
    <3>3. LogOK("ulog", h)
      BY <1>4, <2>1, <3>2, LogDeleteOK
    <3>4. r \in Seq(Entries) /\ Beginning(h, r)
      BY <2>1, <3>2, DeleteKeeps
    <3> HIDE DEF g, q, h, r, d
    <3> QED
      BY <3>1, <3>2, <3>3, <3>4, InsertKeeps
  <2> QED
    BY <1>4, <2>2, <2>3, <2>4, <2>5, <2>6, CommandCases
<1> HIDE DEF g, q
<1>5. Sound(type, g, q, b \/ Beyond(type, p, c, T) \/ Ahead(type, f, T))
  BY <1>1, <1>2, <1>3, <1>4 DEF Sound
<1> QED
  BY <1>5 DEF g, q

\* an update,
LEMMA UpdateSound ==
  ASSUME NEW type \in Types, NEW f, NEW p, NEW b \in BOOLEAN, Sound(type, f, p, b),
         NEW T, IsTimer(T)
  PROVE  Sound(type, Update(type, f, T), p, b \/ Ahead(type, f, T))
<1>1. Holds(type, f) /\ PastHolds(type, p) /\ (~b => Tallied(type, f, p))
  BY DEF Sound
<1>2. Holds(type, Update(type, f, T))
  BY <1>1, UpdateHolds
<1>3. ASSUME ~b, ~Ahead(type, f, T)
      PROVE  Tallied(type, Update(type, f, T), p)
  BY <1>1, <1>3, UpdateTallied
<1>4. type = "ulog" => Kept(Update(type, f, T), p)
  BY DEF Update, Sound
<1> QED
  BY <1>1, <1>2, <1>3, <1>4 DEF Sound

\* and a restart, which may make an int of a uint.
LEMMA RestoreSound ==
  ASSUME NEW type \in Types, NEW new \in Types, NEW f, NEW p, NEW b \in BOOLEAN,
         Sound(type, f, p, b)
  PROVE  /\ type = new => Sound(new, BinaryField(type, f), p, b)
         /\ TextAlike(type, new) => Sound(new, TextField(type, f), p, b)
<1>1. Holds(type, f)
  BY DEF Sound
<1>2. type = new => Sound(new, BinaryField(type, f), p, b)
  BY <1>1, RestoreSame
<1>3. CASE type # "events" /\ TextAlike(type, new)
  <2>1. TextField(type, f) = f
    BY <1>1, <1>3, RestoreSame
  <2>2. CASE type = new
    BY <1>2, <2>1, <2>2
  <2>3. CASE type # new
    <3>1. type \in {"int", "uint"} /\ new \in {"int", "uint"}
      BY <1>3, <2>3 DEF TextAlike, Ints
    <3>2. f \in Ints32 /\ Holds(new, f)
      BY <1>1, <3>1, TypeCases
    <3>3. PastHolds(new, p)
      BY <3>1 DEF PastHolds, Logs
    <3>4. Tallied(new, f, p)
      BY <3>1 DEF Tallied
    <3> QED
      BY <2>1, <2>3, <3>1, <3>2, <3>3, <3>4 DEF Sound
  <2> QED
    BY <2>2, <2>3
<1>4. CASE type = "events" /\ TextAlike(type, new)
  <2>1. new = "events" /\ EventsOK(f)
    BY <1>1, <1>4, TypeCases DEF TextAlike, Ints
  <2> DEFINE g == [f EXCEPT !.total = Lesser(f.total, IntMax)]
  <2>2. TextField(type, f) = g
    BY <1>1, <1>4, RestoreSame
  <2>3. Lesser(f.total, IntMax) \in 0 .. Values[4] - 1
    <3>1. /\ f.total \in 0 .. Values[4] - 1 /\ IntMax \in Nat
          /\ IntMax <= Values[4] - 1 /\ Values[4] \in Int
      BY <2>1, WidthFacts DEF EventsOK, Widths
    <3> QED
      BY <3>1 DEF Lesser
  <2>4. EventsOK(g) /\ g.vec = f.vec /\ g.date = f.date
    BY <2>1, <2>3 DEF EventsOK
  <2> HIDE DEF g
  <2>5. Holds("events", g)
    BY <2>4, TypeCases
  <2>6. PastHolds("events", p) /\ (~b => Tallied("events", f, p))
    BY <1>4 DEF Sound
  <2>7. ~b => Tallied("events", g, p)
    BY <2>4, <2>6 DEF Tallied
  <2>8. Sound("events", g, p, b)
    BY <2>5, <2>6, <2>7 DEF Sound
  <2> QED
    BY <1>2, <1>4, <2>1, <2>2, <2>8
<1> QED
  BY <1>2, <1>3, <1>4

-----------------------------------------------------------------------------
\* The inductive invariant.

Configured == [name : Names, type : Types]
Results    == [count : Int, total : Int, vec : [Units -> Vectors], active : [Units -> Vectors]]

RegistryOK ==
  /\ defs \in Seq(Configured) /\ Len(defs) <= MaxFields
  /\ IsInjective([i \in DOMAIN defs |-> defs[i].name])
  /\ frozen = (DOMAIN field # {})

\* Every field holds what it should, and so does what is recorded of it.
FieldsSound ==
  /\ beyond \in BOOLEAN
  /\ DOMAIN field \subseteq Users /\ DOMAIN past = DOMAIN field
  /\ \A u \in DOMAIN field :
       /\ DOMAIN field[u] = DOMAIN defs /\ DOMAIN past[u] = DOMAIN defs
       /\ \A i \in DOMAIN defs : Sound(Type(i), field[u][i], past[u][i], beyond)

\* The command under way is one of a field there is.
MainOK ==
  main.at = "command" =>
    /\ main.user \in DOMAIN field /\ main.field \in DOMAIN defs
    /\ main.command \in FieldCommands(Type(main.field))

\* A report holds the timer, and nothing else does.
ReportOK ==
  \/ report.at = "idle" /\ locks = 0
  \/ /\ locks = 1
     /\ report \in [at : {"scan"}, field : DOMAIN defs, left : SUBSET DOMAIN field,
                    result : Results, since : [Units -> Periods], raced : BOOLEAN]
     /\ Type(report.field) \in Reported

\* While it does, no command moves the time, and what it has added up is what
\* the contracts say.
AlignedOK ==
  /\ counted \in [Units -> [Periods -> Nat]]
  /\ (report.at = "scan" /\ ~report.raced) =>
       /\ timer.at = report.since
       /\ main.at = "command" => main.held
       /\ (Type(report.field) = "events" /\ ~beyond) =>
            \A x \in Units :
              /\ Counted(report.result.vec[x], report.since[x], counted[x], Window[x])
              /\ Count(report.result.vec[x]) <= Window[x]

IInv == restarts \in Nat /\ TimerOK /\ RegistryOK /\ FieldsSound /\ MainOK /\ ReportOK /\ AlignedOK

-----------------------------------------------------------------------------
\* The vectors of a report.

\* add() of a report lengthens its vector to that of the field, and adds.
LEMMA PaddedShape ==
  ASSUME NEW v \in Vectors, NEW n \in Nat
  PROVE  /\ Padded(v, n) \in Vectors /\ Padded(v, n).width = v.width
         /\ Count(Padded(v, n)) = Greater(Count(v), n)
         /\ \A i \in 1 .. Greater(Count(v), n) :
              Padded(v, n).samples[i] = IF i <= Count(v) THEN v.samples[i] ELSE 0
<1> DEFINE a == v.samples
           m == Greater(0, n - Len(a))
           z == Zeros(m)
<1>1. a \in Seq(Int) /\ Len(a) \in Nat /\ m \in Nat /\ Len(a) + m = Greater(Len(a), n)
  BY DEF Vectors, Greater
<1>2. z \in Seq(Int) /\ Len(z) = m /\ \A i \in 1 .. m : z[i] = 0
  BY <1>1, ZerosShape
<1>3. Padded(v, n) = [v EXCEPT !.samples = a \o z]
  BY DEF Padded
<1> HIDE DEF a, m, z
<1>4. /\ a \o z \in Seq(Int) /\ Len(a \o z) = Len(a) + Len(z)
      /\ \A i \in 1 .. Len(a) + Len(z) :
           (a \o z)[i] = IF i <= Len(a) THEN a[i] ELSE z[i - Len(a)]
  BY <1>1, <1>2, ConcatProperties, Zenon
<1> DEFINE b == a \o z
<1> HIDE DEF b
<1>5. b \in Seq(Int) /\ Len(b) = Greater(Len(a), n)
  BY <1>1, <1>2, <1>4 DEF b
<1>6. \A i \in 1 .. Greater(Len(a), n) : b[i] = IF i <= Len(a) THEN a[i] ELSE 0
  <2> SUFFICES ASSUME NEW i \in 1 .. Greater(Len(a), n)
               PROVE  b[i] = IF i <= Len(a) THEN a[i] ELSE 0
    OBVIOUS
  <2>1. b[i] = IF i <= Len(a) THEN a[i] ELSE z[i - Len(a)]
    BY <1>1, <1>2, <1>4 DEF b
  <2>2. ~(i <= Len(a)) => i - Len(a) \in 1 .. m
    BY <1>1
  <2> QED
    BY <1>2, <2>1, <2>2
<1>7. Padded(v, n) = [v EXCEPT !.samples = b]
  BY <1>3 DEF b
<1>8. /\ [v EXCEPT !.samples = b] \in Vectors
      /\ [v EXCEPT !.samples = b].width = v.width
      /\ [v EXCEPT !.samples = b].samples = b
  BY <1>5 DEF Vectors
<1> QED
  BY <1>5, <1>6, <1>7, <1>8 DEF Count, a

\* then the samples of the field are added, one by one.
LEMMA AddVectorShape ==
  ASSUME NEW v \in Vectors, NEW w \in Vectors
  PROVE  /\ AddVector(v, w) \in Vectors
         /\ Count(AddVector(v, w)) = Greater(Count(v), Count(w))
         /\ \A i \in 1 .. Greater(Count(v), Count(w)) :
              AddVector(v, w).samples[i]
                = (IF i <= Count(v) THEN v.samples[i] ELSE 0) + Sample(w, i - 1)
<1> DEFINE p == Padded(v, Count(w))
           s == [i \in DOMAIN p.samples |-> p.samples[i] + Sample(w, i - 1)]
<1>1. Count(w) \in Nat /\ w.samples \in Seq(Int)
  BY DEF Vectors, Count
<1>2. /\ p \in Vectors
      /\ Count(p) = Greater(Count(v), Count(w))
      /\ \A i \in 1 .. Greater(Count(v), Count(w)) :
           p.samples[i] = IF i <= Count(v) THEN v.samples[i] ELSE 0
  BY <1>1, PaddedShape
<1>3. AddVector(v, w) = [p EXCEPT !.samples = s]
  BY DEF AddVector
<1> HIDE DEF p
<1>4. p.samples \in Seq(Int) /\ DOMAIN p.samples = 1 .. Count(p) /\ Count(p) \in Nat
  BY <1>2 DEF Vectors, Count
<1>5. \A i \in 1 .. Count(p) : Sample(w, i - 1) \in Int
  <2> SUFFICES ASSUME NEW i \in 1 .. Count(p) PROVE Sample(w, i - 1) \in Int
    OBVIOUS
  <2>1. CASE i - 1 < Count(w)
    <3>1. (i - 1) + 1 \in 1 .. Len(w.samples)
      BY <1>1, <1>4, <2>1 DEF Count
    <3>2. ToInt(w.samples[(i - 1) + 1]) \in Ints32
      BY <1>1, <3>1, ToIntRange
    <3> QED
      BY <2>1, <3>2, OneInt32 DEF Sample
  <2>2. CASE ~(i - 1 < Count(w))
    BY <2>2 DEF Sample
  <2> QED
    BY <2>1, <2>2
<1>6. s \in Seq(Int) /\ Len(s) = Count(p)
  <2>1. s = [i \in 1 .. Count(p) |-> p.samples[i] + Sample(w, i - 1)]
    BY <1>4
  <2>2. \A i \in 1 .. Count(p) : p.samples[i] + Sample(w, i - 1) \in Int
    BY <1>4, <1>5
  <2> HIDE DEF s
  <2>3. s \in [1 .. Count(p) -> Int]
    BY <2>1, <2>2
  <2> QED
    BY <1>4, <2>3
<1>7. \A i \in 1 .. Count(p) : s[i] = p.samples[i] + Sample(w, i - 1)
  BY <1>4
<1> HIDE DEF s
<1>8. /\ [p EXCEPT !.samples = s] \in Vectors
      /\ [p EXCEPT !.samples = s].samples = s
  BY <1>2, <1>6 DEF Vectors
<1> QED
  BY <1>2, <1>3, <1>6, <1>7, <1>8 DEF Count

\* So does the vector of those that are active.
LEMMA CountActiveType ==
  ASSUME NEW v \in Vectors, NEW w \in Vectors
  PROVE  CountActive(v, w) \in Vectors
<1> DEFINE p == Padded(v, Count(w))
           s == [i \in DOMAIN p.samples |->
                   p.samples[i] + (IF Sample(w, i - 1) # 0 THEN 1 ELSE 0)]
<1>1. Count(w) \in Nat
  BY DEF Vectors, Count
<1>2. p \in Vectors
  BY <1>1, PaddedShape
<1>3. CountActive(v, w) = [p EXCEPT !.samples = s]
  BY DEF CountActive
<1> HIDE DEF p
<1>4. p.samples \in Seq(Int) /\ DOMAIN p.samples = 1 .. Count(p) /\ Count(p) \in Nat
  BY <1>2 DEF Vectors, Count
<1>5. s \in Seq(Int)
  <2>1. s = [i \in 1 .. Count(p) |-> p.samples[i] + (IF Sample(w, i - 1) # 0 THEN 1 ELSE 0)]
    BY <1>4
  <2>2. \A i \in 1 .. Count(p) : p.samples[i] + (IF Sample(w, i - 1) # 0 THEN 1 ELSE 0) \in Int
    BY <1>4
  <2> HIDE DEF s
  <2>3. s \in [1 .. Count(p) -> Int]
    BY <2>1, <2>2
  <2> QED
    BY <1>4, <2>3
<1> HIDE DEF s
<1> QED
  BY <1>2, <1>3, <1>5 DEF Vectors

\* A sum of vectors of the same date counts the sums.
LEMMA AddVectorCounted ==
  ASSUME NEW v \in Vectors, NEW w \in Vectors, NEW d \in Periods, NEW window \in Nat,
         NEW p \in [Periods -> Nat], NEW q \in [Periods -> Nat], NEW s,
         Counted(v, d, p, window), Counted(w, d, q, window),
         Count(v) <= window, Count(w) <= window,
         \A k \in Periods : s[k] = p[k] + q[k] /\ s[k] <= IntMax
  PROVE  Counted(AddVector(v, w), d, s, window) /\ Count(AddVector(v, w)) <= window
<1> DEFINE r == AddVector(v, w)
           n == Greater(Count(v), Count(w))
<1>1. Count(v) \in Nat /\ Count(w) \in Nat /\ d \in Nat /\ Periods \subseteq Nat /\ d # -1
  BY DEF Vectors, Count, Periods
<1>2. /\ Count(r) = n
      /\ \A i \in 1 .. n :
           r.samples[i] = (IF i <= Count(v) THEN v.samples[i] ELSE 0) + Sample(w, i - 1)
  BY AddVectorShape
<1>3. n <= window /\ n \in Nat
  BY <1>1 DEF Greater
<1> HIDE DEF r
<1>4. \A k \in Periods : s[k] \in Ints32
  <2> SUFFICES ASSUME NEW k \in Periods PROVE s[k] \in Ints32
    OBVIOUS
  <2>1. s[k] = p[k] + q[k] /\ s[k] <= IntMax /\ p[k] \in Nat /\ q[k] \in Nat
    OBVIOUS
  <2>2. Half(4) \in Nat /\ IntMax \in Int
    BY WidthFacts DEF Widths
  <2> QED
    BY <2>1, <2>2 DEF Ints32
<1>5. ASSUME NEW k \in Periods, k > d
      PROVE  s[k] = 0
  BY <1>5 DEF Counted
<1>6. ASSUME NEW k \in Periods, k <= d, d - k < n
      PROVE  r.samples[d - k + 1] = s[k]
  <2>1. /\ d - k + 1 \in 1 .. n /\ k \in Nat /\ (d - k + 1) - 1 = d - k
        /\ d - k \in Nat /\ d - k < window
    BY <1>1, <1>3, <1>6
  <2>2. (IF d - k + 1 <= Count(v) THEN v.samples[d - k + 1] ELSE 0) = p[k]
    <3>1. CASE d - k < Count(v)
      BY <1>1, <1>6, <2>1, <3>1 DEF Counted
    <3>2. CASE ~(d - k < Count(v))
      BY <1>1, <1>6, <2>1, <3>2 DEF Counted
    <3> QED
      BY <3>1, <3>2
  <2>3. Sample(w, d - k) = q[k]
    <3>1. CASE d - k < Count(w)
      <4>1. w.samples[d - k + 1] = q[k] /\ q[k] \in Ints32
        BY <1>1, <1>6, <3>1 DEF Counted
      <4> QED
        BY <3>1, <4>1, ToIntSame DEF Sample
    <3>2. CASE ~(d - k < Count(w))
      <4>1. q[k] = 0
        BY <1>1, <1>6, <2>1, <3>2 DEF Counted
      <4> QED
        BY <3>2, <4>1 DEF Sample
    <3> QED
      BY <3>1, <3>2
  <2> QED
    BY <1>2, <2>1, <2>2, <2>3
<1>7. ASSUME NEW k \in Periods, k <= d, d - k >= n, d - k < window
      PROVE  s[k] = 0
  <2>1. d - k >= Count(v) /\ d - k >= Count(w) /\ k \in Nat
    BY <1>1, <1>7 DEF Greater
  <2>2. p[k] = 0 /\ q[k] = 0
    BY <1>1, <1>7, <2>1 DEF Counted
  <2> QED
    BY <2>2
<1>8. n <= d + 1
  BY <1>1 DEF Counted, Greater
<1> QED
  BY <1>1, <1>2, <1>3, <1>4, <1>5, <1>6, <1>7, <1>8 DEF Counted, r

\* A report that has added a field.
LEMMA ReportAddType ==
  ASSUME NEW type \in Reported, NEW r \in Results, NEW f, Holds(type, f)
  PROVE  /\ ReportAdd(r, type, f) \in Results
         /\ type = "events" => \A x \in Units :
              ReportAdd(r, type, f).vec[x] = AddVector(r.vec[x], f.vec[x])
<1>1. CASE type = "events"
  <2>1. f.total \in Int /\ f.vec \in [Units -> Vectors]
    <3>1. EventsOK(f)
      BY <1>1, TypeCases
    <3>2. 0 .. Values[4] - 1 \subseteq Int
      BY WidthFacts DEF Widths
    <3> QED
      BY <3>1, <3>2 DEF EventsOK
  <2> DEFINE a == [x \in Units |-> AddVector(r.vec[x], f.vec[x])]
             b == [x \in Units |-> CountActive(r.active[x], f.vec[x])]
  <2>2. /\ r.count \in Int /\ r.total \in Int
        /\ \A x \in Units : r.vec[x] \in Vectors /\ r.active[x] \in Vectors
    BY DEF Results
  <2>3. a \in [Units -> Vectors] /\ b \in [Units -> Vectors]
    BY <2>1, <2>2, AddVectorShape, CountActiveType
  <2>4. \A x \in Units : a[x] = AddVector(r.vec[x], f.vec[x])
    OBVIOUS
  <2>5. ReportAdd(r, type, f)
          = [count |-> r.count + 1, total |-> r.total + f.total, vec |-> a, active |-> b]
    BY <1>1 DEF ReportAdd, ReportEvents
  <2> HIDE DEF a, b
  <2> QED
    BY <2>1, <2>2, <2>3, <2>4, <2>5 DEF Results
<1>2. CASE type # "events"
  <2>1. f \in Int /\ type \in Ints
    BY <1>2, TypeCases, OneInt32 DEF Reported
  <2>2. ReportAdd(r, type, f) = [[r EXCEPT !.count = r.count + 1] EXCEPT !.total = r.total + f]
    BY <1>2 DEF ReportAdd, ReportInt, Results
  <2>3. r.count + 1 \in Int /\ r.total + f \in Int
    BY <2>1 DEF Results
  <2>4. [r EXCEPT !.count = r.count + 1] \in Results
    BY <2>3 DEF Results
  <2> DEFINE h == [r EXCEPT !.count = r.count + 1]
  <2> HIDE DEF h
  <2>5. [h EXCEPT !.total = r.total + f] \in Results
    BY <2>3, <2>4 DEF Results, h
  <2> QED
    BY <1>2, <2>2, <2>5 DEF h
<1> QED
  BY <1>1, <1>2

\* A table in which one entry has changed.
LEMMA EntryChanged ==
  ASSUME NEW F, NEW U, DOMAIN F = U, NEW D, \A u \in U : DOMAIN F[u] = D,
         NEW v \in U, NEW j \in D, NEW y
  PROVE  LET G == [F EXCEPT ![v][j] = y]
         IN  /\ DOMAIN G = U
             /\ \A u \in U : DOMAIN G[u] = D
             /\ \A u \in U : \A i \in D : G[u][i] = IF u = v /\ i = j THEN y ELSE F[u][i]
OBVIOUS

\* The vectors a report begins with count nothing.
LEMMA NothingReported ==
  ASSUME NEW v, v.samples = <<>>, NEW d \in Periods, NEW window
  PROVE  Counted(v, d, [q \in Periods |-> 0], window)
<1>1. Count(v) = 0 /\ 0 \in Ints32 /\ d # -1 /\ d \in Nat /\ Periods \subseteq Nat
  BY OneInt32 DEF Count, Periods
<1> QED
  BY <1>1 DEF Counted

\* What is still unknown of a field may become unknown.
LEMMA SoundBeyond ==
  ASSUME NEW type, NEW f, NEW p, NEW b \in BOOLEAN, NEW c \in BOOLEAN,
         Sound(type, f, p, b), b => c
  PROVE  Sound(type, f, p, c)
BY DEF Sound

\* So after a change of one field, all are sound.
LEMMA FieldChanged ==
  ASSUME FieldsSound, NEW v \in DOMAIN field, NEW j \in DOMAIN defs,
         NEW b \in BOOLEAN, beyond => b, NEW f, NEW p, Sound(Type(j), f, p, b),
         UNCHANGED defs, beyond' = b, field' = [field EXCEPT ![v][j] = f],
         \/ past' = [past EXCEPT ![v][j] = p]
         \/ past' = past /\ p = past[v][j]
  PROVE  FieldsSound' /\ DOMAIN field' = DOMAIN field
<1>1. /\ DOMAIN field' = DOMAIN field
      /\ \A u \in DOMAIN field : DOMAIN field'[u] = DOMAIN defs
      /\ \A u \in DOMAIN field : \A i \in DOMAIN defs :
           field'[u][i] = IF u = v /\ i = j THEN f ELSE field[u][i]
  BY EntryChanged DEF FieldsSound
<1>2. /\ DOMAIN past' = DOMAIN field
      /\ \A u \in DOMAIN field : DOMAIN past'[u] = DOMAIN defs
      /\ \A u \in DOMAIN field : \A i \in DOMAIN defs :
           past'[u][i] = IF u = v /\ i = j THEN p ELSE past[u][i]
  BY EntryChanged DEF FieldsSound
<1>3. ASSUME NEW u \in DOMAIN field, NEW i \in DOMAIN defs
      PROVE  Sound(Type(i), field'[u][i], past'[u][i], b)
  <2>1. CASE u = v /\ i = j
    BY <1>1, <1>2, <2>1
  <2>2. CASE ~(u = v /\ i = j)
    <3>1. field'[u][i] = field[u][i] /\ past'[u][i] = past[u][i]
      BY <1>1, <1>2, <2>2
    <3>2. Sound(Type(i), field[u][i], past[u][i], beyond) /\ beyond \in BOOLEAN
      BY DEF FieldsSound
    <3>3. Sound(Type(i), field[u][i], past[u][i], b)
      BY <3>2, SoundBeyond
    <3> QED
      BY <3>1, <3>3
  <2> QED
    BY <2>1, <2>2
<1>4. DOMAIN field \subseteq Users
  BY DEF FieldsSound
<1> QED
  BY <1>1, <1>2, <1>3, <1>4 DEF FieldsSound, Type

\* The types of the table.
LEMMA TypeType ==
  ASSUME RegistryOK, NEW i \in DOMAIN defs
  PROVE  Type(i) \in Types
<1>1. defs[i] \in Configured
  BY DEF RegistryOK
<1> QED
  BY <1>1 DEF Type, Configured

\* The tables that a configuration makes.
LEMMA TableOK ==
  ASSUME NEW config \in Configs
  PROVE  /\ Table(config) \in Seq(Configured) /\ Len(Table(config)) <= MaxFields
         /\ IsInjective([i \in DOMAIN Table(config) |-> Table(config)[i].name])
<1> DEFINE n == Lesser(Len(config), MaxFields)
           t == SubSeq(config, 1, n)
<1>1. config \in Seq(Configured) /\ MaxFields \in Nat
  BY FieldsAssumption DEF Configured
<1>2. Len(config) \in Nat /\ n \in Nat /\ n <= Len(config) /\ n <= MaxFields
  BY <1>1 DEF Lesser
<1>3. t \in Seq(Configured) /\ Len(t) = n /\ \A i \in 1 .. n : t[i] = config[i]
  BY <1>1, <1>2, SubSeqProperties
<1>4. IsInjective([i \in DOMAIN config |-> config[i].name])
  BY FieldsAssumption
<1>5. DOMAIN config = 1 .. Len(config) /\ DOMAIN t = 1 .. n
  BY <1>1, <1>3
<1> HIDE DEF n, t
<1>6. IsInjective([i \in DOMAIN t |-> t[i].name])
  BY <1>2, <1>3, <1>4, <1>5 DEF IsInjective
<1> QED
  BY <1>2, <1>3, <1>6 DEF Table, n, t

\* What a process starts with.
LEMMA UnsetOK == IsTimer(Unset)
<1>1. 0 \in Periods /\ -Lag \in Int
  BY TimerAssumption, CommandFacts
<1> QED
  BY <1>1 DEF IsTimer, Unset

-----------------------------------------------------------------------------
\* The first state satisfies the invariant.
LEMMA Initially == Init => IInv
<1> SUFFICES ASSUME Init PROVE IInv
  OBVIOUS
<1>1. TimerOK
  <2>1. clock = 0 /\ back = 0 /\ timer = Unset /\ 0 \in Periods /\ 0 \in 0 .. MaxBack
    BY TimerAssumption, CommandFacts DEF Init, TimerInit
  <2> QED
    BY <2>1, UnsetOK DEF TimerOK
<1>2. DOMAIN field = {} /\ DOMAIN past = {} /\ beyond = FALSE
  BY DEF Init
<1>3. RegistryOK
  <2>1. PICK config \in Configs : defs = Table(config)
    BY DEF Init
  <2>2. frozen = FALSE
    BY DEF Init
  <2> QED
    BY <1>2, <2>1, <2>2, TableOK DEF RegistryOK
<1>4. FieldsSound
  BY <1>2 DEF FieldsSound
<1>5. main.at = "idle" /\ report.at = "idle" /\ locks = 0
  BY DEF Init, Idle, TimerInit
<1>6. counted \in [Units -> [Periods -> Nat]] /\ restarts \in Nat
  BY DEF Init
<1> QED
  BY <1>1, <1>3, <1>4, <1>5, <1>6 DEF IInv, MainOK, ReportOK, AlignedOK

\* What a step that touches no field leaves as it is.
LEMMA FieldsSteady ==
  ASSUME RegistryOK, FieldsSound, UNCHANGED <<defs, frozen, field, past, beyond>>
  PROVE  RegistryOK' /\ FieldsSound'
BY DEF RegistryOK, FieldsSound, Type

\* The command under way stays one of a field there is,
LEMMA MainSteady ==
  ASSUME MainOK, UNCHANGED <<defs, main>>, DOMAIN field' = DOMAIN field
  PROVE  MainOK'
BY DEF MainOK, Type

\* the report one that holds the timer,
LEMMA ReportSteady ==
  ASSUME ReportOK, UNCHANGED <<defs, report, locks>>, DOMAIN field' = DOMAIN field
  PROVE  ReportOK'
BY DEF ReportOK, Type

\* and what it has added up what the contracts say.
LEMMA AlignedSteady ==
  ASSUME AlignedOK, UNCHANGED <<defs, report, counted>>,
         (report.at = "scan" /\ ~report.raced) =>
           timer' = timer /\ (main'.at = "command" => main'.held),
         ~beyond' => ~beyond
  PROVE  AlignedOK'
BY DEF AlignedOK, Type

\* The clock of the host goes on, or is set back.
LEMMA ClockStep ==
  ASSUME IInv, Tick \/ SetBack,
         UNCHANGED <<registryVars, field, main, report, up, historyVars, boundVars>>
  PROVE  IInv'
<1>1. UNCHANGED <<timer, locks, defs, frozen, field, main, report, past, counted, beyond, restarts>>
  BY DEF Tick, SetBack, registryVars, historyVars, boundVars
<1>2. TimerOK'
  <2>1. clock \in Periods /\ back \in 0 .. MaxBack /\ IsTimer(timer)
    BY DEF IInv, TimerOK
  <2>2. clock' \in Periods /\ back' \in 0 .. MaxBack
    BY <2>1, TimerAssumption DEF Tick, SetBack, Periods
  <2> QED
    BY <1>1, <2>1, <2>2 DEF TimerOK, IsTimer
<1>3. AlignedOK'
  BY <1>1 DEF IInv, AlignedOK, Type
<1> QED
  BY <1>1, <1>2, <1>3, FieldsSteady, MainSteady, ReportSteady DEF IInv

\* fields add
LEMMA FieldsAddStep ==
  ASSUME IInv, NEW name \in Names, NEW type \in NewTypes, FieldsAdd(name, type)
  PROVE  IInv'
<1>1. /\ UNCHANGED <<clock, timer, locks, back, frozen, field, main, report, past, counted,
                     beyond, restarts>>
      /\ main.at = "idle"
  BY DEF FieldsAdd, timeVars, historyVars, Idle
<1>2. TimerOK'
  BY <1>1 DEF IInv, TimerOK, IsTimer
<1>3. CASE defs' = defs
  <2>1. AlignedOK'
    BY <1>1, <1>3 DEF IInv, AlignedOK, Type
  <2> QED
    BY <1>1, <1>2, <1>3, <2>1, FieldsSteady, MainSteady, ReportSteady DEF IInv
<1>4. CASE defs' # defs
  <2> DEFINE new == [name |-> name, type |-> type]
  <2>1. ~frozen /\ ~(Len(defs) >= MaxFields) /\ ~NameTaken(name) /\ defs' = Append(defs, new)
    BY <1>4 DEF FieldsAdd
  <2>2. /\ defs \in Seq(Configured) /\ Len(defs) \in Nat /\ MaxFields \in Nat
        /\ new \in Configured
    BY FieldsAssumption DEF IInv, RegistryOK, Configured
  <2>3. DOMAIN field = {}
    BY <2>1 DEF IInv, RegistryOK
  <2> HIDE DEF new
  <2>4. /\ defs' \in Seq(Configured) /\ Len(defs') = Len(defs) + 1
        /\ DOMAIN defs = 1 .. Len(defs) /\ DOMAIN defs' = 1 .. Len(defs) + 1
        /\ \A i \in DOMAIN defs : defs'[i] = defs[i]
        /\ defs'[Len(defs) + 1] = new
    BY <2>1, <2>2
  <2>5. IsInjective([i \in DOMAIN defs' |-> defs'[i].name])
    <3> DEFINE g == [i \in DOMAIN defs |-> defs[i].name]
               h == [i \in DOMAIN defs' |-> defs'[i].name]
    <3>1. \A a, b \in DOMAIN defs : defs[a].name = defs[b].name => a = b
      <4>1. IsInjective(g)
        BY DEF IInv, RegistryOK
      <4> QED
        BY <4>1 DEF IsInjective
    <3>2. \A a \in DOMAIN defs : defs[a].name # name
      BY <2>1 DEF NameTaken
    <3>3. new.name = name
      BY DEF new
    <3>4. ASSUME NEW a \in DOMAIN defs', NEW b \in DOMAIN defs', defs'[a].name = defs'[b].name
          PROVE  a = b
      <4>1. /\ a \in DOMAIN defs \/ a = Len(defs) + 1
            /\ b \in DOMAIN defs \/ b = Len(defs) + 1
        BY <2>2, <2>4
      <4> QED
        BY <2>4, <3>1, <3>2, <3>3, <3>4, <4>1
    <3> QED
      BY <3>4 DEF IsInjective
  <2>6. RegistryOK'
    BY <1>1, <2>1, <2>2, <2>3, <2>4, <2>5 DEF IInv, RegistryOK
  <2>7. FieldsSound'
    BY <1>1, <2>3 DEF IInv, FieldsSound
  <2>8. MainOK'
    BY <1>1 DEF MainOK
  <2>9. ReportOK'
    BY <1>1, <2>2, <2>4 DEF IInv, ReportOK, Type
  <2>10. AlignedOK'
    <3>1. report.at = "scan" => report.field \in DOMAIN defs
      BY DEF IInv, ReportOK
    <3>2. report.at = "scan" => Type(report.field)' = Type(report.field)
      BY <1>1, <2>4, <3>1 DEF Type
    <3> QED
      BY <1>1, <3>2 DEF IInv, AlignedOK
  <2> QED
    BY <1>1, <1>2, <2>6, <2>7, <2>8, <2>9, <2>10 DEF IInv
<1> QED
  BY <1>3, <1>4

\* user*
LEMMA UserCreateStep ==
  ASSUME IInv, NEW u \in Users, UserCreate(u)
  PROVE  IInv'
<1>1. /\ UNCHANGED <<clock, timer, locks, back, defs, main, report, counted, beyond, restarts>>
      /\ main.at = "idle" /\ report.at = "idle" /\ u \notin DOMAIN field
      /\ frozen' = TRUE
  BY DEF UserCreate, timeVars, boundVars, Idle, Known
<1>2. TimerOK'
  BY <1>1 DEF IInv, TimerOK, IsTimer
<1> DEFINE D == DOMAIN field
           f == [i \in DOMAIN defs |-> New(Type(i))]
           p == [i \in DOMAIN defs |-> NewPast(Type(i))]
<1>3. DOMAIN past = D
  BY DEF IInv, FieldsSound
<1>4. /\ field' = [v \in D \cup {u} |-> IF v = u THEN f ELSE field[v]]
      /\ past' = [v \in D \cup {u} |-> IF v = u THEN p ELSE past[v]]
  BY <1>3 DEF UserCreate
<1>5. RegistryOK'
  <2>1. DOMAIN field' # {}
    BY <1>4
  <2> QED
    BY <1>1, <2>1 DEF IInv, RegistryOK
<1>6. FieldsSound'
  <2>1. ASSUME NEW v \in D \cup {u}
        PROVE  /\ DOMAIN field'[v] = DOMAIN defs /\ DOMAIN past'[v] = DOMAIN defs
               /\ \A i \in DOMAIN defs : Sound(Type(i), field'[v][i], past'[v][i], beyond)
    <3>1. CASE v # u
      BY <1>4, <3>1 DEF IInv, FieldsSound
    <3>2. CASE v = u
      <4>1. field'[v] = f /\ past'[v] = p
        BY <1>4, <3>2
      <4>2. \A i \in DOMAIN defs : Sound(Type(i), New(Type(i)), NewPast(Type(i)), beyond)
        BY TypeType, NewSound DEF IInv, FieldsSound
      <4> QED
        BY <4>1, <4>2
    <3> QED
      BY <3>1, <3>2
  <2>2. D \cup {u} \subseteq Users /\ beyond \in BOOLEAN
    BY DEF IInv, FieldsSound
  <2>3. DOMAIN field' = D \cup {u} /\ DOMAIN past' = D \cup {u}
    BY <1>4
  <2> QED
    BY <1>1, <2>1, <2>2, <2>3 DEF FieldsSound, Type
<1>7. MainOK' /\ ReportOK' /\ AlignedOK'
  BY <1>1 DEF IInv, MainOK, ReportOK, AlignedOK
<1> QED
  BY <1>1, <1>2, <1>5, <1>6, <1>7 DEF IInv

\* A command begins.
LEMMA BeginStep ==
  ASSUME IInv, NEW u \in DOMAIN field, NEW i \in DOMAIN defs, NEW c \in FieldCommands(Type(i)),
         Begin(u, i, c)
  PROVE  IInv'
<1>1. /\ UNCHANGED <<clock, timer, locks, back, defs, frozen, field, report, past, counted,
                     beyond, restarts>>
      /\ main' = [at |-> "command", user |-> u, field |-> i, command |-> c, held |-> locks > 0]
  BY DEF Begin, timeVars, registryVars, historyVars
<1>2. TimerOK'
  BY <1>1 DEF IInv, TimerOK, IsTimer
<1>3. MainOK'
  BY <1>1 DEF MainOK, Type
<1>4. AlignedOK'
  <2>1. report.at = "scan" => locks > 0
    BY DEF IInv, ReportOK
  <2>2. report.at = "scan" => main'.held
    BY <1>1, <2>1
  <2> QED
    BY <1>1, <2>2, AlignedSteady DEF IInv
<1> QED
  BY <1>1, <1>2, <1>3, <1>4, FieldsSteady, ReportSteady DEF IInv

\* It is executed.
LEMMA ExecuteStep ==
  ASSUME IInv, Execute
  PROVE  IInv'
<1> DEFINE u == main.user
           i == main.field
           c == main.command
           T == IF Refreshes(Type(i), c) /\ ~main.held THEN Refreshed ELSE timer
           f == Apply(Type(i), field[u][i], c, T)
           p == Recorded(Type(i), past[u][i], c, T)
           b == (beyond \/ Beyond(Type(i), past[u][i], c, T) \/ Ahead(Type(i), field[u][i], T))
<1>1. /\ timer' = T /\ beyond' = b /\ main.at = "command" /\ main' = Idle
      /\ UNCHANGED <<clock, locks, back, defs, frozen, report, counted, restarts>>
  BY DEF Execute, registryVars, boundVars
<1>2. field' = [field EXCEPT ![u][i] = f] /\ past' = [past EXCEPT ![u][i] = p]
  BY DEF Execute
<1>3. u \in DOMAIN field /\ i \in DOMAIN defs /\ c \in FieldCommands(Type(i))
  BY <1>1 DEF IInv, MainOK
<1>4. IsTimer(T)
  BY RefreshedOK DEF IInv, TimerOK
<1>5. Type(i) \in Types /\ Sound(Type(i), field[u][i], past[u][i], beyond) /\ beyond \in BOOLEAN
  BY <1>3, TypeType DEF IInv, FieldsSound
<1>6. Sound(Type(i), f, p, b)
  BY <1>3, <1>4, <1>5, ApplySound
<1>7. b \in BOOLEAN
  BY <1>5 DEF Beyond, Ahead
<1>8. (report.at = "scan" /\ ~report.raced) => T = timer
  BY <1>1 DEF IInv, AlignedOK
<1>9. main'.at = "idle"
  BY <1>1 DEF Idle
<1>10. beyond => b
  OBVIOUS
<1> HIDE DEF u, i, c, T, f, p, b
<1>11. FieldsSound' /\ DOMAIN field' = DOMAIN field
  BY <1>1, <1>2, <1>3, <1>6, <1>7, <1>10, FieldChanged DEF IInv
<1>12. TimerOK'
  BY <1>1, <1>4 DEF IInv, TimerOK, IsTimer
<1>13. RegistryOK'
  BY <1>1, <1>11 DEF IInv, RegistryOK
<1>14. MainOK'
  BY <1>9 DEF MainOK
<1>15. AlignedOK'
  BY <1>1, <1>8, <1>9, <1>10, AlignedSteady DEF IInv
<1> QED
  BY <1>1, <1>11, <1>12, <1>13, <1>14, <1>15, ReportSteady DEF IInv

\* A report takes the timer.
LEMMA TimerLockStep ==
  ASSUME IInv, NEW i \in DOMAIN defs, Type(i) \in Reported, TimerLock(i)
  PROVE  IInv'
<1>1. /\ UNCHANGED <<clock, back, defs, frozen, field, main, past, beyond, restarts>>
      /\ report.at = "idle" /\ locks' = locks + 1
      /\ counted' = [x \in Units |-> [p \in Periods |-> 0]]
  BY DEF TimerLock, Idle, registryVars
<1>2. locks = 0
  BY <1>1 DEF IInv, ReportOK
<1>3. timer' = Refreshed
  BY <1>2 DEF TimerLock
<1>4. report' = [at |-> "scan", field |-> i, left |-> DOMAIN field,
                 result |-> NewReport, since |-> Refreshed.at,
                 raced |-> main.at = "command" /\ ~main.held]
  BY <1>2 DEF TimerLock
<1>5. IsTimer(Refreshed)
  BY RefreshedOK DEF IInv
<1>6. TimerOK'
  BY <1>1, <1>3, <1>5 DEF IInv, TimerOK, IsTimer
<1>7. NewReport \in Results /\ \A x \in Units : NewReport.vec[x].samples = <<>>
  BY DEF NewReport, Results, Empty, Vectors, Widths
<1>8. Refreshed.at \in [Units -> Periods]
  BY <1>5 DEF IsTimer
<1>9. ReportOK'
  <2>1. (main.at = "command" /\ ~main.held) \in BOOLEAN
    OBVIOUS
  <2>2. locks' = 1
    BY <1>1, <1>2
  <2> DEFINE raced == main.at = "command" /\ ~main.held
  <2> HIDE DEF raced
  <2>3. report' = [at |-> "scan", field |-> i, left |-> DOMAIN field,
                   result |-> NewReport, since |-> Refreshed.at, raced |-> raced]
    BY <1>4 DEF raced
  <2>4. raced \in BOOLEAN
    BY <2>1 DEF raced
  <2>5. Type(i)' = Type(i) /\ report'.field = i
    BY <1>1, <2>3 DEF Type
  <2> QED
    BY <1>1, <1>7, <1>8, <2>2, <2>3, <2>4, <2>5 DEF ReportOK, Type
<1>10. AlignedOK'
  <2>1. counted' \in [Units -> [Periods -> Nat]]
    BY <1>1
  <2>2. ASSUME report'.at = "scan", ~report'.raced
        PROVE  timer'.at = report'.since /\ (main'.at = "command" => main'.held)
    BY <1>1, <1>3, <1>4, <2>2
  <2>3. ASSUME NEW x \in Units
        PROVE  /\ Counted(report'.result.vec[x], report'.since[x], counted'[x], Window[x])
               /\ Count(report'.result.vec[x]) <= Window[x]
    <3>1. /\ NewReport.vec[x].samples = <<>> /\ report'.since[x] \in Periods
          /\ counted'[x] = [p \in Periods |-> 0]
          /\ report'.result.vec[x] = NewReport.vec[x]
      BY <1>1, <1>4, <1>7, <1>8
    <3>2. Counted(NewReport.vec[x], report'.since[x], [p \in Periods |-> 0], Window[x])
      BY <3>1, NothingReported
    <3>3. Count(NewReport.vec[x]) = 0 /\ Window[x] \in Nat
      BY <3>1, WindowFacts DEF Count
    <3> QED
      BY <3>1, <3>2, <3>3
  <2> QED
    BY <2>1, <2>2, <2>3 DEF AlignedOK
<1> QED
  BY <1>1, <1>6, <1>9, <1>10, FieldsSteady, MainSteady DEF IInv

\* It adds the field of a user.
LEMMA VisitStep ==
  ASSUME IInv, NEW u \in Users, Visit(u)
  PROVE  IInv'
<1> DEFINE i == report.field
           f == Update(Type(i), field[u][i], timer)
           p == past[u][i]
           b == (beyond \/ Ahead(Type(i), field[u][i], timer)
                   \/ \E x \in Units : \E q \in Periods : counted'[x][q] > IntMax)
<1>1. /\ UNCHANGED <<clock, timer, locks, back, defs, frozen, main, past, restarts>>
      /\ report.at = "scan" /\ u \in report.left /\ beyond' = b
      /\ report' = [report EXCEPT !.left = @ \ {u}, !.result = ReportAdd(@, Type(i), f)]
      /\ counted' = IF Type(i) # "events" THEN counted
                    ELSE [x \in Units |-> [q \in Periods |->
                            counted[x][q] + past[u][i][x][q]]]
  BY DEF Visit, timeVars, registryVars, boundVars
<1>2. field' = [field EXCEPT ![u][i] = f]
  BY DEF Visit
<1>3. /\ locks = 1
      /\ report \in [at : {"scan"}, field : DOMAIN defs, left : SUBSET DOMAIN field,
                     result : Results, since : [Units -> Periods], raced : BOOLEAN]
  BY <1>1 DEF IInv, ReportOK
<1>4. u \in DOMAIN field /\ i \in DOMAIN defs /\ IsTimer(timer)
  BY <1>1, <1>3 DEF IInv, TimerOK
<1>5. Type(i) \in Types /\ Sound(Type(i), field[u][i], p, beyond) /\ beyond \in BOOLEAN
  BY <1>4, TypeType DEF IInv, FieldsSound
<1>6. Sound(Type(i), f, p, beyond \/ Ahead(Type(i), field[u][i], timer))
  BY <1>4, <1>5, UpdateSound
<1>7. b \in BOOLEAN /\ (beyond \/ Ahead(Type(i), field[u][i], timer)) \in BOOLEAN
  BY <1>5 DEF Ahead
<1>8. (beyond => b) /\ ((beyond \/ Ahead(Type(i), field[u][i], timer)) => b)
  OBVIOUS
<1>9. Sound(Type(i), f, p, b)
  BY <1>6, <1>7, <1>8, SoundBeyond
<1>10. counted \in [Units -> [Periods -> Nat]]
  BY DEF IInv, AlignedOK
<1>11. counted' \in [Units -> [Periods -> Nat]]
  <2>1. CASE Type(i) # "events"
    BY <1>1, <1>10, <2>1
  <2>2. CASE Type(i) = "events"
    <3>1. p \in [Units -> [Periods -> Nat]]
      BY <1>5, <2>2 DEF Sound, PastHolds, Logs
    <3>2. \A x \in Units : \A q \in Periods : counted[x][q] + p[x][q] \in Nat
      BY <1>10, <3>1
    <3>3. counted' = [x \in Units |-> [q \in Periods |-> counted[x][q] + p[x][q]]]
      BY <1>1, <2>2
    <3> HIDE DEF p
    <3> QED
      BY <3>2, <3>3
  <2> QED
    BY <2>1, <2>2
<1>12. Holds(Type(i), f) /\ Type(i) \in Reported /\ report.result \in Results
  BY <1>1, <1>3, <1>9 DEF IInv, ReportOK, Sound
<1>13. /\ ReportAdd(report.result, Type(i), f) \in Results
       /\ Type(i) = "events" => \A x \in Units :
            ReportAdd(report.result, Type(i), f).vec[x] = AddVector(report.result.vec[x], f.vec[x])
  BY <1>12, ReportAddType
<1> DEFINE R == ReportAdd(report.result, Type(i), f)
<1>14. /\ report' \in [at : {"scan"}, field : DOMAIN defs, left : SUBSET DOMAIN field,
                       result : Results, since : [Units -> Periods], raced : BOOLEAN]
       /\ report'.field = report.field /\ report'.since = report.since
       /\ report'.raced = report.raced /\ report'.result = R
  <2>1. report.left \ {u} \in SUBSET DOMAIN field
    BY <1>3
  <2>2. report' = [report EXCEPT !.left = report.left \ {u}, !.result = R]
    BY <1>1
  <2>3. R \in Results
    BY <1>13
  <2> HIDE DEF R
  <2> QED
    BY <1>3, <2>1, <2>2, <2>3
<1>15. ASSUME Type(i) = "events", ~report.raced, ~b, NEW x \in Units
       PROVE  /\ Counted(R.vec[x], report.since[x], counted'[x], Window[x])
              /\ Count(R.vec[x]) <= Window[x]
  <2>1. /\ ~beyond /\ ~Ahead(Type(i), field[u][i], timer)
        /\ \A q \in Periods : ~(counted'[x][q] > IntMax)
    BY <1>15
  <2>2. /\ Counted(report.result.vec[x], report.since[x], counted[x], Window[x])
        /\ Count(report.result.vec[x]) <= Window[x]
        /\ timer.at = report.since
    BY <1>1, <1>15, <2>1 DEF IInv, AlignedOK
  <2>3. /\ EventsOK(f) /\ Tallied("events", f, p) /\ PastHolds("events", p)
        /\ EventsOK(field[u][i])
    BY <1>5, <1>9, <1>15, TypeCases DEF Sound
  <2>4. f.date = timer.at
    <3>1. f = UpdateEvents(field[u][i], timer.at) /\ timer.at \in [Units -> Periods]
      BY <1>4, <1>15 DEF Update, IsTimer
    <3> QED
      BY <2>3, <3>1, UpdateEventsShape
  <2>5. Counted(f.vec[x], report.since[x], p[x], Window[x]) /\ Count(f.vec[x]) <= Window[x]
    BY <2>2, <2>3, <2>4 DEF Tallied, EventsOK, VecOK
  <2>6. p \in [Units -> [Periods -> Nat]]
    BY <2>3 DEF PastHolds, Logs
  <2>7. /\ report.result.vec[x] \in Vectors /\ f.vec[x] \in Vectors
        /\ report.since[x] \in Periods /\ Window[x] \in Nat
        /\ counted[x] \in [Periods -> Nat] /\ p[x] \in [Periods -> Nat]
    BY <1>3, <1>10, <2>3, <2>6, WindowFacts DEF Results, EventsOK
  <2>8. \A q \in Periods : counted'[x][q] = counted[x][q] + p[x][q]
    BY <1>1, <1>15
  <2>9. \A q \in Periods : counted'[x][q] <= IntMax
    BY <1>11, <2>1, WidthFacts DEF Widths
  <2>10. R.vec[x] = AddVector(report.result.vec[x], f.vec[x])
    BY <1>13, <1>15
  <2> HIDE DEF R, f, p, i
  <2>11. \A q \in Periods : /\ counted'[x][q] = counted[x][q] + p[x][q]
                            /\ counted'[x][q] <= IntMax
    BY <2>8, <2>9
  <2>12. /\ Counted(AddVector(report.result.vec[x], f.vec[x]), report.since[x], counted'[x],
                     Window[x])
         /\ Count(AddVector(report.result.vec[x], f.vec[x])) <= Window[x]
    <3> DEFINE v == report.result.vec[x]
               w == f.vec[x]
               d == report.since[x]
               n == Window[x]
               a == counted[x]
               s == counted'[x]
               q == p[x]
    <3>1. /\ v \in Vectors /\ w \in Vectors /\ d \in Periods /\ n \in Nat
          /\ a \in [Periods -> Nat] /\ q \in [Periods -> Nat]
          /\ Counted(v, d, a, n) /\ Counted(w, d, q, n) /\ Count(v) <= n /\ Count(w) <= n
          /\ \A k \in Periods : s[k] = a[k] + q[k] /\ s[k] <= IntMax
      BY <2>2, <2>5, <2>7, <2>11
    <3> HIDE DEF v, w, d, n, a, s, q
    <3>2. Counted(AddVector(v, w), d, s, n) /\ Count(AddVector(v, w)) <= n
      BY <3>1, AddVectorCounted
    <3> QED
      BY <3>2 DEF v, w, d, n, s
  <2> QED
    BY <2>10, <2>12
<1>16. beyond' = b /\ p = past[u][i]
  BY <1>1
<1>17. report'.field = i
  BY <1>14
<1> HIDE DEF i, f, p, b, R
<1>18. FieldsSound' /\ DOMAIN field' = DOMAIN field
  BY <1>1, <1>2, <1>4, <1>7, <1>8, <1>9, <1>16, FieldChanged DEF IInv
<1>19. TimerOK'
  BY <1>1 DEF IInv, TimerOK, IsTimer
<1>20. RegistryOK'
  BY <1>1, <1>18 DEF IInv, RegistryOK
<1>21. MainOK'
  BY <1>1, <1>18, MainSteady DEF IInv
<1>22. ReportOK'
  BY <1>1, <1>3, <1>12, <1>14, <1>17, <1>18 DEF ReportOK, Type
<1>23. AlignedOK'
  <2>1. ASSUME ~report'.raced
        PROVE  timer'.at = report'.since /\ (main'.at = "command" => main'.held)
    BY <1>1, <1>14, <2>1 DEF IInv, AlignedOK
  <2>2. ASSUME ~report'.raced, Type(report.field)' = "events", ~b, NEW x \in Units
        PROVE  /\ Counted(report'.result.vec[x], report'.since[x], counted'[x], Window[x])
               /\ Count(report'.result.vec[x]) <= Window[x]
    <3>1. Type(i) = "events" /\ ~report.raced
      BY <1>1, <1>14, <1>17, <2>2 DEF Type
    <3> QED
      BY <1>14, <1>15, <2>2, <3>1
  <2> QED
    BY <1>11, <1>16, <2>1, <2>2 DEF AlignedOK
<1> QED
  BY <1>1, <1>18, <1>19, <1>20, <1>21, <1>22, <1>23 DEF IInv

\* It passes over a user.
LEMMA SkipStep ==
  ASSUME IInv, NEW u \in Users, Skip(u)
  PROVE  IInv'
<1>1. /\ UNCHANGED <<clock, timer, locks, back, defs, frozen, field, main, past, counted,
                     beyond, restarts>>
      /\ report.at = "scan" /\ report' = [report EXCEPT !.left = @ \ {u}]
  BY DEF Skip, timeVars, registryVars, historyVars, boundVars
<1>2. /\ locks = 1 /\ Type(report.field) \in Reported
      /\ report \in [at : {"scan"}, field : DOMAIN defs, left : SUBSET DOMAIN field,
                     result : Results, since : [Units -> Periods], raced : BOOLEAN]
  BY <1>1 DEF IInv, ReportOK
<1>3. /\ report' \in [at : {"scan"}, field : DOMAIN defs, left : SUBSET DOMAIN field,
                      result : Results, since : [Units -> Periods], raced : BOOLEAN]
      /\ report'.field = report.field /\ report'.since = report.since
      /\ report'.raced = report.raced /\ report'.result = report.result
      /\ report'.at = report.at
  <2>1. report.left \ {u} \in SUBSET DOMAIN field
    BY <1>2
  <2> QED
    BY <1>1, <1>2, <2>1
<1>4. TimerOK'
  BY <1>1 DEF IInv, TimerOK, IsTimer
<1>5. ReportOK'
  BY <1>1, <1>2, <1>3 DEF ReportOK, Type
<1>6. AlignedOK'
  BY <1>1, <1>3 DEF IInv, AlignedOK, Type
<1> QED
  BY <1>1, <1>4, <1>5, <1>6, FieldsSteady, MainSteady DEF IInv

\* It gives the timer back.
LEMMA TimerUnlockStep ==
  ASSUME IInv, TimerUnlock
  PROVE  IInv'
<1>1. /\ UNCHANGED <<clock, timer, back, defs, frozen, field, main, past, beyond, restarts>>
      /\ report.at = "scan" /\ report'.at = "idle" /\ locks' = Greater(0, locks - 1)
      /\ counted' = [x \in Units |-> [p \in Periods |-> 0]]
  BY DEF TimerUnlock, registryVars, boundVars, Idle
<1>2. locks = 1
  BY <1>1 DEF IInv, ReportOK
<1>3. locks' = 0
  BY <1>1, <1>2 DEF Greater
<1>4. TimerOK'
  BY <1>1 DEF IInv, TimerOK, IsTimer
<1>5. ReportOK' /\ AlignedOK'
  BY <1>1, <1>3 DEF ReportOK, AlignedOK
<1> QED
  BY <1>1, <1>4, <1>5, FieldsSteady, MainSteady DEF IInv

\* A table that restores has the same places, with types that look alike.
LEMMA RestorableFacts ==
  ASSUME NEW old \in Seq(Configured), NEW new \in Seq(Configured), NEW text \in BOOLEAN,
         Restorable(old, new, text), DOMAIN field # {}
  PROVE  /\ DOMAIN new = DOMAIN old
         /\ \A i \in DOMAIN old : IF text THEN TextAlike(old[i].type, new[i].type)
                                  ELSE old[i].type = new[i].type
<1>1. Len(old) = Len(new)
  BY DEF Restorable
<1>2. DOMAIN old = 1 .. Len(old) /\ DOMAIN new = 1 .. Len(new)
  OBVIOUS
<1>3. \A i \in DOMAIN old : IF text THEN TextAlike(old[i].type, new[i].type)
                            ELSE old[i].type = new[i].type
  BY <1>1, <1>2 DEF Restorable
<1> QED
  BY <1>1, <1>2, <1>3

\* The process starts again.
LEMMA RestartStep ==
  ASSUME IInv, NEW config \in Configs, NEW text \in BOOLEAN, Restart(config, text)
  PROVE  IInv'
<1>1. /\ UNCHANGED <<clock, locks, back, main, report, counted, beyond>>
      /\ main.at = "idle" /\ report.at = "idle" /\ restarts' = restarts + 1
      /\ up' = Restorable(defs, Table(config), text) /\ timer' = Unset
      /\ defs' = Table(config) /\ frozen' = (up' /\ DOMAIN field # {})
      /\ past' = IF up' THEN past ELSE <<>>
  BY DEF Restart, Idle
<1>2. field' = IF ~up' THEN <<>>
               ELSE [u \in DOMAIN field |-> [i \in DOMAIN defs |->
                       IF text THEN TextField(Type(i), field[u][i])
                       ELSE BinaryField(Type(i), field[u][i])]]
  BY DEF Restart
<1>3. up' \in BOOLEAN
  BY <1>1 DEF Restorable
<1>4. TimerOK'
  BY <1>1, UnsetOK DEF IInv, TimerOK, IsTimer, Unset
<1>5. /\ defs \in Seq(Configured) /\ Table(config) \in Seq(Configured)
      /\ Len(Table(config)) <= MaxFields
      /\ IsInjective([i \in DOMAIN Table(config) |-> Table(config)[i].name])
  BY TableOK DEF IInv, RegistryOK
<1>6. restarts' \in Nat /\ beyond \in BOOLEAN
  BY <1>1 DEF IInv, FieldsSound
<1>7. MainOK' /\ ReportOK' /\ AlignedOK'
  BY <1>1 DEF IInv, MainOK, ReportOK, AlignedOK
<1>8. CASE ~up'
  <2>1. DOMAIN field' = {} /\ DOMAIN past' = {} /\ frozen' = FALSE
    <3>1. field' = <<>> /\ past' = <<>>
      BY <1>1, <1>2, <1>8
    <3>2. frozen' = FALSE
      BY <1>1, <1>8
    <3> QED
      BY <3>1, <3>2
  <2>2. RegistryOK'
    BY <1>1, <1>5, <2>1 DEF RegistryOK
  <2>3. FieldsSound'
    BY <1>1, <1>6, <2>1 DEF FieldsSound
  <2> QED
    BY <1>4, <1>6, <1>7, <2>2, <2>3 DEF IInv
<1>9. CASE up'
  <2>1. /\ field' = [u \in DOMAIN field |-> [i \in DOMAIN defs |->
                       IF text THEN TextField(Type(i), field[u][i])
                       ELSE BinaryField(Type(i), field[u][i])]]
        /\ past' = past /\ frozen' = (DOMAIN field # {}) /\ DOMAIN field' = DOMAIN field
    BY <1>1, <1>2, <1>9
  <2>2. RegistryOK'
    BY <1>1, <1>5, <2>1 DEF RegistryOK
  <2>3. ASSUME NEW u \in DOMAIN field
        PROVE  /\ DOMAIN field'[u] = DOMAIN defs' /\ DOMAIN past[u] = DOMAIN defs'
               /\ \A i \in DOMAIN defs' : Sound(Type(i)', field'[u][i], past[u][i], beyond)
    <3>1. /\ DOMAIN defs' = DOMAIN defs
          /\ \A i \in DOMAIN defs : IF text THEN TextAlike(defs[i].type, defs'[i].type)
                                    ELSE defs[i].type = defs'[i].type
      BY <1>1, <1>5, <1>9, RestorableFacts
    <3>2. DOMAIN field'[u] = DOMAIN defs /\ DOMAIN past[u] = DOMAIN defs
      BY <2>1 DEF IInv, FieldsSound
    <3>3. ASSUME NEW i \in DOMAIN defs
          PROVE  Sound(Type(i)', field'[u][i], past[u][i], beyond)
      <4>1. Sound(Type(i), field[u][i], past[u][i], beyond)
        BY DEF IInv, FieldsSound
      <4>2. Type(i) \in Types /\ Type(i)' \in Types
        <5>1. defs[i] \in Configured /\ defs'[i] \in Configured
          BY <1>1, <1>5, <3>1
        <5> QED
          BY <5>1 DEF Type, Configured
      <4>3. IF text THEN TextAlike(Type(i), Type(i)') ELSE Type(i) = Type(i)'
        BY <3>1 DEF Type
      <4>4. field'[u][i] = IF text THEN TextField(Type(i), field[u][i])
                           ELSE BinaryField(Type(i), field[u][i])
        BY <2>1
      <4> QED
        BY <1>6, <4>1, <4>2, <4>3, <4>4, RestoreSound
    <3> QED
      BY <3>1, <3>2, <3>3
  <2>4. FieldsSound'
    BY <1>1, <1>6, <2>1, <2>3 DEF IInv, FieldsSound
  <2> QED
    BY <1>4, <1>6, <1>7, <2>2, <2>4 DEF IInv
<1> QED
  BY <1>3, <1>8, <1>9

\* Every step preserves the invariant.
LEMMA Preserved == IInv /\ [Next]_vars => IInv'
<1> SUFFICES ASSUME IInv, [Next]_vars PROVE IInv'
  OBVIOUS
<1>1. CASE Tick /\ UNCHANGED <<registryVars, field, main, report, up, historyVars, boundVars>>
  BY <1>1, ClockStep
<1>2. CASE SetBack /\ UNCHANGED <<registryVars, field, main, report, up, historyVars, boundVars>>
  BY <1>2, ClockStep
<1>3. ASSUME NEW n \in Names, NEW t \in NewTypes, FieldsAdd(n, t) PROVE IInv'
  BY <1>3, FieldsAddStep
<1>4. ASSUME NEW u \in Users, UserCreate(u) PROVE IInv'
  BY <1>4, UserCreateStep
<1>5. ASSUME NEW u \in DOMAIN field, NEW i \in DOMAIN defs, NEW c \in FieldCommands(Type(i)),
             Begin(u, i, c)
      PROVE  IInv'
  BY <1>5, BeginStep
<1>6. CASE Execute
  BY <1>6, ExecuteStep
<1>7. ASSUME NEW i \in DOMAIN defs, Type(i) \in Reported, TimerLock(i) PROVE IInv'
  BY <1>7, TimerLockStep
<1>8. ASSUME NEW u \in Users, Visit(u) PROVE IInv'
  BY <1>8, VisitStep
<1>9. ASSUME NEW u \in Users, Skip(u) PROVE IInv'
  BY <1>9, SkipStep
<1>10. CASE TimerUnlock
  BY <1>10, TimerUnlockStep
<1>11. ASSUME NEW c \in Configs, NEW text \in BOOLEAN, Restart(c, text) PROVE IInv'
  BY <1>11, RestartStep
<1>12. CASE UNCHANGED vars
  <2>1. UNCHANGED <<clock, timer, locks, back, defs, frozen, field, main, report, past, counted,
                    beyond, restarts>>
    BY <1>12 DEF vars, timeVars, registryVars, historyVars, boundVars
  <2>2. TimerOK' /\ AlignedOK'
    BY <2>1 DEF IInv, TimerOK, IsTimer, AlignedOK, Type
  <2> QED
    BY <2>1, <2>2, FieldsSteady, MainSteady, ReportSteady DEF IInv
<1> QED
  BY <1>1, <1>2, <1>3, <1>4, <1>5, <1>6, <1>7, <1>8, <1>9, <1>10, <1>11, <1>12 DEF Next

\* So it holds in every state.
LEMMA Invariance == Spec => []IInv
BY Initially, Preserved, PTL DEF Spec

-----------------------------------------------------------------------------
\* Invariants of the specification.

\* What a field holds is of its type.
LEMMA HoldsOK ==
  ASSUME NEW type \in Types, NEW f, Holds(type, f)
  PROVE  FieldOK(type, f)
<1>1. CASE type = "events"
  <2>1. EventsOK(f)
    BY <1>1, TypeCases
  <2>2. /\ DOMAIN f = {"vec", "date", "total", "last"}
        /\ \A x \in Units : /\ f.vec[x] \in Vectors
                           /\ Count(f.vec[x]) <= Window[x]
                           /\ f.date[x] \in Periods \cup {-1}
    BY <2>1 DEF EventsOK, VecOK
  <2> QED
    BY <1>1, <2>2 DEF FieldOK, Logs
<1>2. CASE type = "marks"
  <2>1. f.num \in Vectors /\ f.denom \in Vectors /\ f.month \in Periods \cup {-1}
    BY <1>2, TypeCases DEF MarksOK
  <2> QED
    BY <1>2, <2>1 DEF FieldOK, Logs
<1>3. CASE type \in Logs
  <2>1. f.items \in Vectors /\ f.dates \in Vectors
    <3>1. LogOK(type, f)
      BY <1>3, TypeCases
    <3> QED
      BY <3>1 DEF LogOK
  <2> QED
    BY <1>3, <2>1 DEF FieldOK, Logs
<1>4. CASE type \notin {"events", "marks"} \cup Logs
  <2>1. f \in Int
    BY <1>4, TypeCases, OneInt32
  <2> QED
    BY <1>4, <2>1 DEF FieldOK, Logs
<1> QED
  BY <1>1, <1>2, <1>3, <1>4

\* The fields are of their types, and every user has exactly those of the
\* table, through the commands, the reports and the restarts: Fields.TypeOK
\* (User::fields_init, Fields::freeze, Fields::restore, StatsVector).
THEOREM TypesHold == Spec => []TypeOK
<1>1. IInv => TypeOK
  <2> SUFFICES ASSUME IInv PROVE TypeOK
    OBVIOUS
  <2>1. /\ clock \in Periods /\ back \in 0 .. MaxBack
        /\ timer.now \in Periods /\ timer.at \in [Units -> Periods]
    BY DEF IInv, TimerOK, IsTimer
  <2>2. locks \in {0, 1}
    BY DEF IInv, ReportOK
  <2>3. /\ \A i \in DOMAIN defs : defs[i] \in [name : Names, type : Types]
        /\ Len(defs) <= MaxFields
        /\ IsInjective([i \in DOMAIN defs |-> defs[i].name])
        /\ frozen = (DOMAIN field # {})
    <3>1. RegistryOK
      BY DEF IInv
    <3>2. \A i \in DOMAIN defs : defs[i] \in [name : Names, type : Types]
      <4>1. \A i \in DOMAIN defs : defs[i] \in Configured
        BY <3>1 DEF RegistryOK
      <4> QED
        BY <4>1 DEF Configured
    <3> QED
      BY <3>1, <3>2 DEF RegistryOK
  <2>4. ASSUME NEW u \in DOMAIN field, NEW i \in DOMAIN defs
        PROVE  FieldOK(Type(i), field[u][i])
    <3>1. Type(i) \in Types /\ Holds(Type(i), field[u][i])
      BY TypeType DEF IInv, FieldsSound, Sound
    <3> QED
      BY <3>1, HoldsOK
  <2>5. /\ DOMAIN field \subseteq Users
        /\ \A u \in DOMAIN field : DOMAIN field[u] = DOMAIN defs
    BY DEF IInv, FieldsSound
  <2> QED
    BY <2>1, <2>2, <2>3, <2>4, <2>5 DEF TypeOK
<1> QED
  BY <1>1, Invariance, PTL

\* Every sample of events and of marks counts the additions of its own
\* period, whatever came between and through every restart:
\* Fields.WindowsAreTallies (FieldEvents and FieldMarks, INC_OR_EXPAND,
\* StatsVector::translate, dump and restore).
THEOREM WindowsCount == Spec => []WindowsAreTallies
<1>1. IInv => WindowsAreTallies
  <2> SUFFICES ASSUME IInv, ~beyond PROVE WindowsAreTallies
    BY DEF WindowsAreTallies
  <2>1. ASSUME NEW e \in Of({"events"}), NEW x \in Units
        PROVE  Tallies(field[e[1]][e[2]].vec[x], field[e[1]][e[2]].date[x],
                       past[e[1]][e[2]][x], Window[x])
    <3> DEFINE f == field[e[1]][e[2]]
               p == past[e[1]][e[2]]
    <3>1. e[1] \in DOMAIN field /\ e[2] \in DOMAIN defs /\ Type(e[2]) = "events"
      BY DEF Of
    <3>2. Sound("events", f, p, beyond)
      BY <3>1 DEF IInv, FieldsSound
    <3>3. EventsOK(f) /\ Counted(f.vec[x], f.date[x], p[x], Window[x])
      <4>1. Holds("events", f) /\ Tallied("events", f, p)
        BY <3>2 DEF Sound
      <4> QED
        BY <4>1, TypeCases DEF Tallied
    <3> HIDE DEF f, p
    <3>4. f.date[x] \in Periods \cup {-1} /\ Window[x] \in Nat /\ Count(f.vec[x]) \in Nat
      <4>1. f.vec[x] \in Vectors /\ f.date[x] \in Periods \cup {-1}
        BY <3>3 DEF EventsOK
      <4>2. Window[x] \in Nat
        BY WindowFacts
      <4> QED
        BY <4>1, <4>2 DEF Vectors, Count
    <3>5. Tallies(f.vec[x], f.date[x], p[x], Window[x])
      BY <3>3, <3>4, CountedTallies
    <3> QED
      BY <3>5 DEF f, p
  <2>2. ASSUME NEW e \in Of({"marks"})
        PROVE  /\ Tallies(field[e[1]][e[2]].num, field[e[1]][e[2]].month,
                          past[e[1]][e[2]].num, MarksWindow)
               /\ Tallies(field[e[1]][e[2]].denom, field[e[1]][e[2]].month,
                          past[e[1]][e[2]].denom, MarksWindow)
    <3> DEFINE f == field[e[1]][e[2]]
               p == past[e[1]][e[2]]
    <3>1. e[1] \in DOMAIN field /\ e[2] \in DOMAIN defs /\ Type(e[2]) = "marks"
      BY DEF Of
    <3>2. Sound("marks", f, p, beyond)
      BY <3>1 DEF IInv, FieldsSound
    <3>3. /\ MarksOK(f)
          /\ Counted(f.num, f.month, p.num, MarksWindow)
          /\ Counted(f.denom, f.month, p.denom, MarksWindow)
      <4>1. Holds("marks", f) /\ Tallied("marks", f, p)
        BY <3>2 DEF Sound
      <4> QED
        BY <4>1, TypeCases DEF Tallied
    <3> HIDE DEF f, p
    <3>4. /\ f.month \in Periods \cup {-1} /\ MarksWindow \in Nat
          /\ Count(f.num) \in Nat /\ Count(f.denom) \in Nat
      <4>1. f.num \in Vectors /\ f.denom \in Vectors /\ f.month \in Periods \cup {-1}
        BY <3>3 DEF MarksOK
      <4>2. Len(f.num.samples) \in Nat /\ Len(f.denom.samples) \in Nat
        BY <4>1 DEF Vectors
      <4>3. MarksWindow \in Nat
        BY WindowFacts
      <4> QED
        BY <4>1, <4>2, <4>3 DEF Count
    <3>5. Tallies(f.num, f.month, p.num, MarksWindow)
      BY <3>3, <3>4, CountedTallies
    <3>6. Tallies(f.denom, f.month, p.denom, MarksWindow)
      BY <3>3, <3>4, CountedTallies
    <3> QED
      BY <3>5, <3>6 DEF f, p
  <2> QED
    BY <2>1, <2>2 DEF WindowsAreTallies
<1> QED
  BY <1>1, Invariance, PTL

-----------------------------------------------------------------------------
\* Scores: sums of samples, of which each counts its own period.

\* The function that adds up the numbers at a set of places of a list.
Adds(f, s, n) ==
  f = [S \in SUBSET (1 .. n) |-> IF S = {} THEN 0 ELSE f[S \ {Max(S)}] + s[Max(S)]]

\* Numbers have a least one.
LEMMA LeastNumber ==
  ASSUME NEW S, S \subseteq Nat, S # {}
  PROVE  \E x \in S : \A y \in S : x <= y
<1>1. PICK n \in S : \A k \in S : <<k, n>> \notin OpToRel(<, Nat)
  BY WFMin, NatLessThanWellFounded
<1>2. \A k \in S : ~(k < n)
  BY <1>1 DEF OpToRel
<1> QED
  BY <1>2

\* The greatest of the places up to one.
LEMMA LastOf ==
  ASSUME NEW n \in Nat, NEW S \in SUBSET (1 .. n), S # {}
  PROVE  Max(S) \in S /\ \A x \in S : x <= Max(S)
<1> DEFINE U == {k \in 0 .. n : \A x \in S : x <= k}
<1>1. U \subseteq Nat /\ n \in U
  OBVIOUS
<1> HIDE DEF U
<1>2. PICK k \in U : \A j \in U : k <= j
  BY <1>1, LeastNumber
<1>3. k \in 0 .. n /\ \A x \in S : x <= k
  BY <1>2 DEF U
<1>4. k \in S
  <2> SUFFICES ASSUME k \notin S PROVE FALSE
    OBVIOUS
  <2>1. \A x \in S : x \in Nat /\ x <= k - 1
    BY <1>3
  <2>2. k - 1 \in 0 .. n
    <3>1. PICK x \in S : x \in Nat /\ x <= k - 1
      BY <2>1
    <3> QED
      BY <1>3, <3>1
  <2>3. k - 1 \in U
    BY <2>1, <2>2 DEF U
  <2> QED
    BY <1>2, <1>3, <2>3
<1>5. \E x \in S : \A y \in S : x >= y
  BY <1>3, <1>4
<1>6. Max(S) \in S /\ \A y \in S : Max(S) >= y
  BY <1>5 DEF Max
<1> QED
  BY <1>6

\* There is such a function for a list of any length: otherwise there would be
\* a least length without one.
LEMMA AddsExist ==
  ASSUME NEW s, NEW n \in Nat
  PROVE  \E f : Adds(f, s, n)
<1> DEFINE Bad == {k \in Nat : ~ \E f : Adds(f, s, k)}
<1> SUFFICES ASSUME Bad # {} PROVE FALSE
  OBVIOUS
<1>1. PICK k \in Bad : \A x \in Bad : k <= x
  <2>1. Bad \subseteq Nat
    OBVIOUS
  <2> HIDE DEF Bad
  <2> QED
    BY <2>1, LeastNumber
<1>2. CASE k = 0
  <2> DEFINE f == [S \in SUBSET (1 .. 0) |-> 0]
  <2>1. \A S \in SUBSET (1 .. 0) : S = {}
    OBVIOUS
  <2>2. Adds(f, s, 0)
    BY <2>1 DEF Adds
  <2> QED
    BY <1>1, <1>2, <2>2
<1>3. CASE k > 0
  <2>1. k - 1 \in Nat /\ k - 1 \notin Bad
    BY <1>1, <1>3
  <2>2. PICK f : Adds(f, s, k - 1)
    BY <2>1
  <2> DEFINE g == [S \in SUBSET (1 .. k) |-> IF k \in S THEN f[S \ {k}] + s[k] ELSE f[S]]
             h == [S \in SUBSET (1 .. k) |-> IF S = {} THEN 0 ELSE g[S \ {Max(S)}] + s[Max(S)]]
  <2>3. ASSUME NEW S \in SUBSET (1 .. k) PROVE g[S] = h[S]
    <3>1. k \in Nat
      BY <1>1
    <3>2. CASE k \in S
      <4>1. Max(S) = k
        <5>1. S # {} /\ Max(S) \in S /\ \A x \in S : x <= Max(S)
          BY <3>1, <3>2, LastOf
        <5>2. Max(S) \in 1 .. k /\ k <= Max(S)
          BY <3>2, <5>1
        <5> QED
          BY <3>1, <5>2
      <4>2. S \ {k} \in SUBSET (1 .. k) /\ k \notin S \ {k}
        OBVIOUS
      <4>3. g[S \ {k}] = f[S \ {k}]
        BY <4>2
      <4> QED
        BY <3>2, <4>1, <4>3
    <3>3. CASE k \notin S
      <4>1. S \in SUBSET (1 .. (k - 1))
        BY <3>1, <3>3
      <4>2. g[S] = f[S] /\ f[S] = IF S = {} THEN 0 ELSE f[S \ {Max(S)}] + s[Max(S)]
        BY <2>2, <3>3, <4>1 DEF Adds
      <4>3. g[S \ {Max(S)}] = f[S \ {Max(S)}]
        BY <3>3
      <4> QED
        BY <4>2, <4>3
    <3> QED
      BY <3>2, <3>3
  <2>4. g = h
    <3>1. g = [S \in SUBSET (1 .. k) |-> g[S]] /\ h = [S \in SUBSET (1 .. k) |-> h[S]]
      OBVIOUS
    <3> HIDE DEF g, h
    <3> QED
      BY <2>3, <3>1
  <2>5. Adds(g, s, k)
    BY <2>4 DEF Adds
  <2> QED
    BY <1>1, <2>5
<1> QED
  BY <1>1, <1>2, <1>3

\* The sum of a list is what one of these functions gives for all its places.
LEMMA SumAdds ==
  ASSUME NEW s \in Seq(Int)
  PROVE  \E f : Adds(f, s, Len(s)) /\ SumOf(s) = f[1 .. Len(s)]
<1> DEFINE f == CHOOSE f : f = [S \in SUBSET (DOMAIN s) |->
                  IF S = {} THEN 0 ELSE f[S \ {Max(S)}] + s[Max(S)]]
<1>1. SumOf(s) = f[DOMAIN s]
  BY DEF SumOf, FoldLeft, MapThenFoldSet
<1>2. DOMAIN s = 1 .. Len(s) /\ Len(s) \in Nat
  OBVIOUS
<1>3. f = CHOOSE g : Adds(g, s, Len(s))
  BY <1>2 DEF Adds
<1>4. \E g : Adds(g, s, Len(s))
  BY <1>2, AddsExist
<1> HIDE DEF f
<1>5. Adds(f, s, Len(s))
  BY <1>3, <1>4
<1> QED
  BY <1>1, <1>2, <1>5

\* One place after the other.
LEMMA AddsNext ==
  ASSUME NEW s \in Seq(Int), NEW f, Adds(f, s, Len(s)), NEW k \in 1 .. Len(s)
  PROVE  f[1 .. k] = f[1 .. (k - 1)] + s[k]
<1>1. k \in Nat /\ 1 .. k \in SUBSET (1 .. k) /\ 1 .. k \in SUBSET (1 .. Len(s)) /\ k \in 1 .. k
  OBVIOUS
<1>2. Max(1 .. k) = k
  <2>1. Max(1 .. k) \in 1 .. k /\ \A x \in 1 .. k : x <= Max(1 .. k)
    BY <1>1, LastOf
  <2> QED
    BY <1>1, <2>1
<1>3. (1 .. k) \ {k} = 1 .. (k - 1)
  BY <1>1
<1>4. f[1 .. k] = f[(1 .. k) \ {Max(1 .. k)}] + s[Max(1 .. k)]
  BY <1>1 DEF Adds
<1> QED
  BY <1>2, <1>3, <1>4

\* The sum of one number is that.
LEMMA SumOne ==
  ASSUME NEW y \in Int
  PROVE  SumOf(<<y>>) = y
<1>1. <<y>> \in Seq(Int) /\ Len(<<y>>) = 1 /\ <<y>>[1] = y /\ 1 \in 1 .. Len(<<y>>)
  OBVIOUS
<1>2. PICK f : Adds(f, <<y>>, 1) /\ SumOf(<<y>>) = f[1 .. 1]
  BY <1>1, SumAdds
<1>3. f[1 .. 1] = f[1 .. (1 - 1)] + y
  BY <1>1, <1>2, AddsNext
<1>4. f[{}] = 0
  <2>1. {} \in SUBSET (1 .. 1)
    OBVIOUS
  <2> QED
    BY <1>2, <2>1 DEF Adds
<1>5. 1 .. (1 - 1) = {}
  OBVIOUS
<1> QED
  BY <1>2, <1>3, <1>4, <1>5

\* Two lists that are the same but for zeros at the end have the same sum, an
\* integer.
LEMMA SumSame ==
  ASSUME NEW s \in Seq(Int), NEW t \in Seq(Int), Len(s) <= Len(t),
         \A k \in 1 .. Len(t) : t[k] = IF k <= Len(s) THEN s[k] ELSE 0
  PROVE  SumOf(s) = SumOf(t) /\ SumOf(s) \in Int
<1> DEFINE n == Len(s)
           m == Len(t)
<1>1. n \in Nat /\ m \in Nat /\ n <= m
  OBVIOUS
<1>2. PICK f : Adds(f, s, n) /\ SumOf(s) = f[1 .. n]
  BY SumAdds
<1>3. PICK g : Adds(g, t, m) /\ SumOf(t) = g[1 .. m]
  BY SumAdds
<1>4. \A k \in 1 .. n : f[1 .. k] = f[1 .. (k - 1)] + s[k]
  BY <1>2, AddsNext
<1>5. \A k \in 1 .. m : g[1 .. k] = g[1 .. (k - 1)] + t[k]
  BY <1>3, AddsNext
<1>6. f[1 .. 0] = 0 /\ g[1 .. 0] = 0
  <2>1. 1 .. 0 = {} /\ {} \in SUBSET (1 .. n) /\ {} \in SUBSET (1 .. m)
    OBVIOUS
  <2> QED
    BY <1>2, <1>3, <2>1 DEF Adds
<1>7. /\ \A k \in 1 .. n : s[k] \in Int
      /\ \A k \in 1 .. m : t[k] \in Int /\ t[k] = IF k <= n THEN s[k] ELSE 0
  OBVIOUS
<1> HIDE DEF n, m
<1> DEFINE F(k)  == f[1 .. Lesser(k, n)]
           G(k)  == g[1 .. k]
           Bad   == {k \in 0 .. m : ~(G(k) \in Int /\ F(k) = G(k))}
<1>8. Bad = {}
  <2> SUFFICES ASSUME Bad # {} PROVE FALSE
    OBVIOUS
  <2>1. PICK k \in Bad : \A x \in Bad : k <= x
    <3>1. Bad \subseteq Nat
      BY <1>1
    <3> HIDE DEF Bad
    <3> QED
      BY <3>1, LeastNumber
  <2>2. k \in 0 .. m
    BY <2>1
  <2>3. k # 0
    <3>1. Lesser(0, n) = 0
      BY <1>1 DEF Lesser
    <3> QED
      BY <1>6, <2>1, <3>1
  <2>4. k \in 1 .. m /\ k - 1 \in 0 .. m /\ k - 1 \notin Bad /\ k \in Nat
    BY <1>1, <2>1, <2>2, <2>3
  <2>5. G(k - 1) \in Int /\ F(k - 1) = G(k - 1) /\ G(k) = G(k - 1) + t[k] /\ t[k] \in Int
    BY <1>5, <1>7, <2>4
  <2>6. CASE k <= n
    <3>1. Lesser(k, n) = k /\ Lesser(k - 1, n) = k - 1 /\ k \in 1 .. n /\ t[k] = s[k]
      BY <1>1, <1>7, <2>4, <2>6 DEF Lesser
    <3>2. F(k) = F(k - 1) + s[k]
      BY <1>4, <3>1
    <3> HIDE DEF F, G
    <3>3. F(k) = G(k) /\ G(k) \in Int
      BY <2>5, <3>1, <3>2
    <3> QED
      BY <2>1, <3>3
  <2>7. CASE ~(k <= n)
    <3>1. Lesser(k, n) = n /\ Lesser(k - 1, n) = n /\ t[k] = 0
      BY <1>1, <1>7, <2>4, <2>7 DEF Lesser
    <3>2. F(k) = F(k - 1)
      BY <3>1
    <3> HIDE DEF F, G
    <3>3. F(k) = G(k) /\ G(k) \in Int
      BY <2>5, <3>1, <3>2
    <3> QED
      BY <2>1, <3>3
  <2> QED
    BY <2>6, <2>7
<1>9. m \in 0 .. m /\ Lesser(m, n) = n
  BY <1>1 DEF Lesser
<1> QED
  BY <1>2, <1>3, <1>8, <1>9 DEF n, m

\* What a contract counts in one of the periods up to t, the newest first.
Period(p, t, k) == IF t + 1 - k \in Periods THEN p[t + 1 - k] ELSE 0

\* A sample is what its period counts, and there is none for a period before
\* the first one that counts nothing.
LEMMA SampleCounted ==
  ASSUME NEW v \in Vectors, NEW t \in Periods, NEW p, NEW window \in Nat \ {0},
         Counted(v, t, p, window), Count(v) <= window, NEW k \in 1 .. window
  PROVE  /\ Period(p, t, k) \in Ints32
         /\ Period(p, t, k) = IF k <= Count(v) THEN v.samples[k] ELSE 0
<1>1. t \in Nat /\ MaxClock \in Nat /\ Periods = 0 .. MaxClock /\ t <= MaxClock
      /\ Count(v) \in Nat /\ Count(v) <= t + 1 /\ 0 \in Ints32
  BY TimerAssumption, OneInt32 DEF Periods, Vectors, Count, Counted
<1> DEFINE q == t + 1 - k
<1>2. CASE q \in Periods
  <2>1. t # -1 /\ q <= t /\ t - q = k - 1 /\ t - q + 1 = k /\ t - q < window
    BY <1>1, <1>2
  <2>2. /\ p[q] \in Ints32
        /\ t - q < Count(v) => v.samples[t - q + 1] = p[q]
        /\ t - q >= Count(v) => p[q] = 0
    BY <1>2, <2>1 DEF Counted
  <2> QED
    BY <1>1, <1>2, <2>1, <2>2 DEF Period
<1>3. CASE q \notin Periods
  <2>1. ~(k <= Count(v))
    BY <1>1, <1>3
  <2> QED
    BY <1>1, <1>3, <2>1 DEF Period
<1> QED
  BY <1>2, <1>3

\* How many periods a rule sums: all of the window, or no more than it has.
Taken(n, window) == IF n = 0 THEN window ELSE Lesser(n, window)

\* A sum of samples is the sum of what their periods count, if that is an int.
LEMMA SumIsInLast ==
  ASSUME NEW v \in Vectors, NEW t \in Periods, NEW p, NEW window \in Nat \ {0},
         Counted(v, t, p, window), Count(v) <= window, NEW n \in Nat
  PROVE  LET x == InLast(p, t, Taken(n, window))
         IN  x \in Int /\ (x \in Ints32 => Sum(v, n) = x)
<1> DEFINE c == Taken(n, window)
           j == IF n # 0 THEN Lesser(n, Count(v)) ELSE Count(v)
           a == SubSeq(v.samples, 1, j)
           b == [k \in 1 .. c |-> Period(p, t, k)]
<1>1. /\ Count(v) = Len(v.samples) /\ Count(v) \in Nat /\ v.samples \in Seq(Int)
      /\ c \in 1 .. window /\ j \in Nat /\ j <= Count(v) /\ j <= c /\ (j < c => j = Count(v))
  BY DEF Vectors, Count, Taken, Lesser
<1> HIDE DEF c, j
<1>2. a \in Seq(Int) /\ Len(a) = j /\ \A k \in 1 .. j : a[k] = v.samples[k]
  BY <1>1
<1>3. \A k \in 1 .. c : Period(p, t, k) \in Int
                        /\ Period(p, t, k) = IF k <= Count(v) THEN v.samples[k] ELSE 0
  <2> SUFFICES ASSUME NEW k \in 1 .. c
               PROVE  Period(p, t, k) \in Int
                      /\ Period(p, t, k) = IF k <= Count(v) THEN v.samples[k] ELSE 0
    OBVIOUS
  <2>1. k \in 1 .. window
    BY <1>1
  <2>2. Ints32 \subseteq Int
    BY OneInt32
  <2> QED
    BY <2>1, <2>2, SampleCounted
<1>4. b \in Seq(Int) /\ Len(b) = c /\ \A k \in 1 .. c : b[k] = Period(p, t, k)
  BY <1>1, <1>3
<1>5. InLast(p, t, c) = SumOf(b)
  BY DEF InLast, Period
<1> HIDE DEF a, b
<1>6. ASSUME NEW k \in 1 .. c PROVE b[k] = IF k <= j THEN a[k] ELSE 0
  <2>1. b[k] = IF k <= Count(v) THEN v.samples[k] ELSE 0
    BY <1>3, <1>4
  <2>2. CASE k <= j
    <3>1. k \in 1 .. j /\ k <= Count(v)
      BY <1>1, <2>2
    <3> QED
      BY <1>2, <2>1, <2>2, <3>1
  <2>3. CASE ~(k <= j)
    <3>1. ~(k <= Count(v))
      BY <1>1, <2>3
    <3> QED
      BY <2>1, <2>3, <3>1
  <2> QED
    BY <2>2, <2>3
<1>7. SumOf(a) = SumOf(b) /\ SumOf(a) \in Int
  BY <1>1, <1>2, <1>4, <1>6, SumSame
<1>8. Sum(v, n) = ToInt(SumOf(a))
  BY DEF Sum, a, j
<1> QED
  BY <1>5, <1>7, <1>8, ToIntSame DEF c

\* The rules of events score what was counted: FieldEvents::score.
LEMMA EventsScores ==
  ASSUME NEW f, EventsOK(f), NEW T, IsTimer(T), f.date = T.at, NEW p,
         \A x \in Units : Counted(f.vec[x], T.at[x], p[x], Window[x]) /\ p[x] \in [Periods -> Nat],
         NEW r \in EventsRules, r.of # "total"
  PROVE  EventsScored(f, p, T, r)
<1> DEFINE x == r.of
           v == f.vec[x]
           t == T.at[x]
           w == Window[x]
<1>1. /\ x \in Units /\ r.n \in Nat
      /\ r.as = "sum" \/ r.as = "sample"
  <2>1. CASE \E y \in Units : r \in [of : {y}, as : {"sum"}, n : Lasts[y]]
    <3>1. \A y \in Units : Lasts[y] \subseteq Nat
      BY DEF Lasts, Units
    <3> QED
      BY <2>1, <3>1
  <2>2. CASE r \in [of : Units, as : {"sample"}, n : {0, 1}]
    BY <2>2
  <2>3. CASE r = [of |-> "total", as |-> "sum", n |-> 0]
    BY <2>3
  <2> DEFINE sums == {[of : {y}, as : {"sum"}, n : Lasts[y]] : y \in Units}
  <2>4. \/ r \in UNION sums
        \/ r \in [of : Units, as : {"sample"}, n : {0, 1}]
        \/ r = [of |-> "total", as |-> "sum", n |-> 0]
    BY DEF EventsRules
  <2>5. ASSUME r \in UNION sums
        PROVE  \E y \in Units : r \in [of : {y}, as : {"sum"}, n : Lasts[y]]
    <3>1. PICK S \in sums : r \in S
      BY <2>5, Zenon
    <3> QED
      BY <3>1, Zenon
  <2> QED
    BY <2>1, <2>2, <2>3, <2>4, <2>5
<1>2. /\ v \in Vectors /\ Count(v) <= w /\ t \in Periods /\ w \in Nat \ {0}
      /\ Counted(v, t, p[x], w) /\ p[x] \in [Periods -> Nat]
  BY <1>1, WindowFacts DEF EventsOK, VecOK, IsTimer
<1>3. Score("events", f, r) = EventsScore(f, r)
  BY DEF Score, Rules, Logs
<1> HIDE DEF x, v, t, w
<1>4. CASE r.as = "sum"
  <2>1. EventsTally(p, T, r) = InLast(p[x], t, Taken(r.n, w))
    BY <1>4 DEF EventsTally, Taken, x, t, w
  <2>2. Score("events", f, r) = Sum(v, r.n)
    BY <1>3, <1>4 DEF EventsScore, x, v
  <2> DEFINE y == InLast(p[x], t, Taken(r.n, w))
  <2>3. y \in Int /\ (y \in Ints32 => Sum(v, r.n) = y)
    BY <1>1, <1>2, SumIsInLast
  <2> QED
    BY <2>1, <2>2, <2>3 DEF EventsScored
<1>5. CASE r.as = "sample"
  <2>1. r.as # "sum" /\ r.n + 1 \in Nat
    BY <1>1, <1>5
  <2>2. Score("events", f, r) = Sample(v, r.n)
    BY <1>3, <1>5, <2>1 DEF EventsScore, x, v
  <2>3. EventsTally(p, T, r) = IF r.n < w THEN InLast(p[x], t - r.n, 1) ELSE 0
    BY <2>1 DEF EventsTally, x, t, w
  <2>4. CASE r.n < w
    <3>1. r.n + 1 \in 1 .. w
      BY <1>1, <1>2, <2>4
    <3> DEFINE y == Period(p[x], t, r.n + 1)
    <3>2. y \in Ints32 /\ y = IF r.n + 1 <= Count(v) THEN v.samples[r.n + 1] ELSE 0
      BY <1>2, <3>1, SampleCounted
    <3>3. t \in Int /\ t - r.n + 1 - 1 = t + 1 - (r.n + 1)
      BY <1>1, <1>2, TimerAssumption DEF Periods
    <3>4. InLast(p[x], t - r.n, 1) = SumOf(<<y>>)
      <4>1. \A k \in 1 .. 1 : k = 1
        OBVIOUS
      <4>2. [k \in 1 .. 1 |-> IF t - r.n + 1 - k \in Periods THEN p[x][t - r.n + 1 - k] ELSE 0]
              = [k \in 1 .. 1 |-> y]
        BY <3>3, <4>1 DEF Period
      <4>3. [k \in 1 .. 1 |-> y] = <<y>>
        OBVIOUS
      <4> QED
        BY <4>2, <4>3 DEF InLast
    <3>5. y \in Int
      BY <3>2, OneInt32
    <3> HIDE DEF y
    <3>6. SumOf(<<y>>) = y
      BY <3>5, SumOne
    <3>7. Sample(v, r.n) = y
      <4>1. Count(v) \in Nat
        BY <1>2 DEF Vectors, Count
      <4>2. CASE r.n < Count(v)
        <5>1. y = v.samples[r.n + 1]
          BY <1>1, <3>2, <4>1, <4>2
        <5> QED
          BY <3>2, <4>2, <5>1, ToIntSame DEF Sample
      <4>3. CASE ~(r.n < Count(v))
        <5>1. y = 0
          BY <1>1, <3>2, <4>1, <4>3
        <5> QED
          BY <4>3, <5>1 DEF Sample
      <4> QED
        BY <4>2, <4>3
    <3> QED
      BY <2>2, <2>3, <2>4, <3>4, <3>6, <3>7 DEF EventsScored
  <2>5. CASE ~(r.n < w)
    <3>1. ~(r.n < Count(v))
      <4>1. Count(v) \in Nat
        BY <1>2 DEF Vectors, Count
      <4> QED
        BY <1>1, <1>2, <2>5, <4>1
    <3>2. Sample(v, r.n) = 0
      BY <3>1 DEF Sample
    <3> QED
      BY <2>2, <2>3, <2>5, <3>2 DEF EventsScored
  <2> QED
    BY <2>4, <2>5
<1> QED
  BY <1>1, <1>4, <1>5

\* A number whose multiple is an int is one.
LEMMA FactorInt ==
  ASSUME NEW k \in Nat \ {0}, NEW x \in Int, k * x \in Ints32
  PROVE  x \in Ints32
<1>1. Half(4) \in Nat /\ IntMax = Half(4) - 1 /\ k \in Nat /\ k >= 1
  BY WidthFacts DEF Widths, IntMax
<1>2. CASE x >= 0
  <2>1. k * x >= x
    BY <1>1, <1>2
  <2> QED
    BY <1>1, <1>2, <2>1 DEF Ints32
<1>3. CASE x < 0
  <2>1. k * x <= x
    BY <1>1, <1>3
  <2> QED
    BY <1>1, <1>3, <2>1 DEF Ints32
<1> QED
  BY <1>2, <1>3

\* And so do those of marks: FieldMarks::score.
LEMMA MarksScores ==
  ASSUME NEW f, MarksOK(f), NEW T, IsTimer(T), NEW p,
         Counted(f.num, T.at.months, p.num, MarksWindow),
         Counted(f.denom, T.at.months, p.denom, MarksWindow),
         NEW r \in MarksRules
  PROVE  MarksScored(f, p, T, r)
<1> DEFINE t == T.at.months
           a == InLast(p.num, t, Taken(r.n, MarksWindow))
           b == InLast(p.denom, t, Taken(r.n, MarksWindow))
<1>1. /\ r.n \in Nat /\ r.as \in {"average", "skyverage", "count"} /\ t \in Periods
      /\ MarksWindow \in Nat \ {0} /\ Precision \in Nat \ {0}
      /\ f.num \in Vectors /\ Count(f.num) <= MarksWindow
      /\ f.denom \in Vectors /\ Count(f.denom) <= MarksWindow
  BY WindowFacts, WindowsAssumption DEF MarksRules, MarksOK, VecOK, IsTimer, Units
<1>2. MarksSums(p, T, r) = [num |-> Precision * a, denom |-> b]
  BY DEF MarksSums, Taken
<1>3. a \in Int /\ (a \in Ints32 => Sum(f.num, r.n) = a)
  BY <1>1, SumIsInLast
<1>4. b \in Int /\ (b \in Ints32 => Sum(f.denom, r.n) = b)
  BY <1>1, SumIsInLast
<1> HIDE DEF t, a, b
<1>5. SUFFICES ASSUME Precision * a \in Ints32, b \in Ints32, b + 1 \in Ints32
               PROVE  Score("marks", f, r)
                        = MarksTally([num |-> Precision * a, denom |-> b], r)
  BY <1>2 DEF MarksScored
<1>6. a \in Ints32 /\ a * Precision = Precision * a
  BY <1>1, <1>3, <1>5, FactorInt
<1>7. /\ ToInt(Sum(f.num, r.n) * Precision) = Precision * a
      /\ Sum(f.denom, r.n) = b /\ ToInt(b + 1) = b + 1
  BY <1>3, <1>4, <1>5, <1>6, ToIntSame
<1>8. Score("marks", f, r) = MarksScore(f, r)
  BY DEF Score, Rules, Logs
<1> QED
  BY <1>1, <1>7, <1>8 DEF MarksScore, MarksTally

\* What a score reads of events and of marks is what came in the hours, days or
\* months of its rule: Fields.ScoresFollowTallies (FieldEvents::score,
\* FieldMarks::score, StatsVector::sum).
THEOREM ScoresFollow == Spec => []ScoresFollowTallies
<1>1. IInv => ScoresFollowTallies
  <2> DEFINE T == IF locks > 0 THEN timer ELSE Refreshed
  <2> SUFFICES ASSUME IInv, ~beyond, NEW e \in Of({"events", "marks"}),
                      ~Ahead(Type(e[2]), field[e[1]][e[2]], T),
                      NEW r \in Rules(Type(e[2])), r.of # "total"
               PROVE  LET f == Update(Type(e[2]), field[e[1]][e[2]], T)
                          p == past[e[1]][e[2]]
                      IN  IF Type(e[2]) = "events" THEN EventsScored(f, p, T, r)
                          ELSE MarksScored(f, p, T, r)
    BY DEF ScoresFollowTallies
  <2> DEFINE type == Type(e[2])
             g == field[e[1]][e[2]]
             p == past[e[1]][e[2]]
             f == Update(type, g, T)
  <2>1. /\ e[1] \in DOMAIN field /\ e[2] \in DOMAIN defs /\ type \in {"events", "marks"}
        /\ type \in Types
    BY DEF Of, Types
  <2>2. Sound(type, g, p, beyond)
    BY <2>1 DEF IInv, FieldsSound
  <2>3. IsTimer(T)
    BY RefreshedOK DEF IInv, TimerOK
  <2>4. Holds(type, g) /\ PastHolds(type, p) /\ Tallied(type, g, p) /\ ~Ahead(type, g, T)
    BY <2>2 DEF Sound
  <2> HIDE DEF T, type, g, p
  <2>5. Holds(type, f) /\ Tallied(type, f, p)
    BY <2>1, <2>3, <2>4, UpdateHolds, UpdateTallied
  <2>6. r \in Rules(type)
    BY DEF type
  <2>7. CASE type = "events"
    <3>1. EventsOK(f) /\ EventsOK(g) /\ f = UpdateEvents(g, T.at)
      BY <2>4, <2>5, <2>7, TypeCases DEF Update
    <3>2. f.date = T.at
      BY <2>3, <3>1, UpdateEventsShape DEF IsTimer
    <3>3. \A x \in Units : Counted(f.vec[x], T.at[x], p[x], Window[x]) /\ p[x] \in [Periods -> Nat]
      <4>1. \A x \in Units : Counted(f.vec[x], f.date[x], p[x], Window[x])
        BY <2>5, <2>7 DEF Tallied
      <4>2. p \in [Units -> [Periods -> Nat]]
        BY <2>4, <2>7 DEF PastHolds, Logs
      <4> HIDE DEF f
      <4> QED
        BY <3>2, <4>1, <4>2
    <3>4. r \in EventsRules
      BY <2>6, <2>7 DEF Rules
    <3> HIDE DEF f
    <3>5. EventsScored(f, p, T, r)
      BY <2>3, <3>1, <3>2, <3>3, <3>4, EventsScores
    <3> QED
      BY <2>7, <3>5 DEF f, type, g, p
  <2>8. CASE type = "marks"
    <3>1. MarksOK(f) /\ MarksOK(g) /\ f = UpdateMarks(g, T.at)
      BY <2>4, <2>5, <2>8, TypeCases DEF Update
    <3>2. f.month = T.at.months
      BY <2>3, <3>1, UpdateMarksShape DEF IsTimer
    <3>3. /\ Counted(f.num, T.at.months, p.num, MarksWindow)
          /\ Counted(f.denom, T.at.months, p.denom, MarksWindow)
      BY <2>5, <2>8, <3>2 DEF Tallied
    <3>4. r \in MarksRules
      BY <2>6, <2>8 DEF Rules
    <3> HIDE DEF f
    <3>5. MarksScored(f, p, T, r)
      BY <2>3, <3>1, <3>3, <3>4, MarksScores
    <3> QED
      BY <2>8, <3>5 DEF f, type, g, p
  <2> QED
    BY <2>1, <2>7, <2>8
<1> QED
  BY <1>1, Invariance, PTL

\* What a ulog keeps is a beginning of all that was inserted, items and dates
\* in pairs, newest first, and never nothing: Fields.UlogKeepsNewest
\* (FieldUlog::insert, add and del, with the dumps and restores).
THEOREM UlogKeeps == Spec => []UlogKeepsNewest
<1>1. IInv => UlogKeepsNewest
  <2> SUFFICES ASSUME IInv, NEW e \in Of({"ulog"})
               PROVE  LET f == field[e[1]][e[2]]
                          p == past[e[1]][e[2]]
                      IN  /\ Count(f.items) = Count(f.dates)
                          /\ Count(f.items) <= Len(p)
                          /\ p # <<>> => Count(f.items) > 0
                          /\ \A k \in 1 .. Count(f.items) :
                                <<Sample(f.items, k - 1), Sample(f.dates, k - 1)>> = p[k]
    BY DEF UlogKeepsNewest, KeepsNewest
  <2> DEFINE f == field[e[1]][e[2]]
             p == past[e[1]][e[2]]
  <2>1. e[1] \in DOMAIN field /\ e[2] \in DOMAIN defs /\ Type(e[2]) = "ulog"
    BY DEF Of
  <2>2. Sound("ulog", f, p, beyond)
    BY <2>1 DEF IInv, FieldsSound
  <2>3. LogOK("ulog", f) /\ Kept(f, p) /\ p \in Seq(Entries)
    BY <2>2, TypeCases DEF Sound, PastHolds, Entries
  <2> HIDE DEF f, p
  <2>4. \A k \in 1 .. Count(f.items) :
          <<Sample(f.items, k - 1), Sample(f.dates, k - 1)>> = p[k]
    BY <2>3, KeptReads DEF Kept
  <2> QED
    BY <2>3, <2>4 DEF Kept, Beginning, f, p
<1> QED
  BY <1>1, Invariance, PTL

\* A report counts every user with the hour, the day and the month at which
\* it locked the timer: Fields.ReportAligned (Timer::lock, Users::report,
\* ReportFieldEvents::add).
THEOREM ReportsAligned == Spec => []ReportAligned
<1>1. IInv => ReportAligned
  <2> SUFFICES ASSUME IInv, report.at = "scan", Type(report.field) = "events", ~report.raced,
                      ~beyond, NEW x \in Units
               PROVE  Tallies(report.result.vec[x], report.since[x], counted[x], Window[x])
    BY DEF ReportAligned
  <2>1. Counted(report.result.vec[x], report.since[x], counted[x], Window[x])
    BY DEF IInv, AlignedOK
  <2>2. report.result \in Results /\ report.since \in [Units -> Periods]
    BY DEF IInv, ReportOK
  <2>3. /\ report.since[x] \in Periods \cup {-1} /\ Window[x] \in Nat
        /\ Count(report.result.vec[x]) \in Nat
    BY <2>2, WindowFacts DEF Results, Vectors, Count
  <2> QED
    BY <2>1, <2>3, CountedTallies
<1> QED
  BY <1>1, Invariance, PTL

-----------------------------------------------------------------------------
\* What no step does.

\* The only step that counts a restart is one.
LEMMA RestartsOnly ==
  ASSUME IInv, [Next]_vars
  PROVE  restarts' = restarts \/ \E c \in Configs, text \in BOOLEAN : Restart(c, text)
BY DEF Next, Tick, SetBack, FieldsAdd, UserCreate, Begin, Execute, TimerLock, Visit, Skip,
       TimerUnlock, vars, boundVars

\* Stopping and starting with the same fields changes nothing they hold,
\* unless a total is more than an int: Fields.RestoreKeepsFields (dump,
\* restore, restore_bin and StatsVector::dump, restore).
THEOREM RestoresKeep == Spec => RestoreKeepsFields
<1> DEFINE A == (restarts' # restarts /\ up' /\ [i \in DOMAIN defs |-> defs[i].type]
                                     = [i \in DOMAIN defs' |-> defs'[i].type]) =>
                  \A u \in DOMAIN field : \A i \in DOMAIN defs :
                    \/ field'[u][i] = field[u][i]
                    \/ Type(i) = "events" /\ field[u][i].total > IntMax
<1>1. IInv /\ [Next]_vars => A
  <2> SUFFICES ASSUME IInv, [Next]_vars, restarts' # restarts, up',
                      NEW u \in DOMAIN field, NEW i \in DOMAIN defs
               PROVE  \/ field'[u][i] = field[u][i]
                      \/ Type(i) = "events" /\ field[u][i].total > IntMax
    OBVIOUS
  <2>1. PICK config \in Configs, text \in BOOLEAN : Restart(config, text)
    BY RestartsOnly
  <2>2. field'[u][i] = IF text THEN TextField(Type(i), field[u][i])
                       ELSE BinaryField(Type(i), field[u][i])
    BY <2>1 DEF Restart
  <2> DEFINE f == field[u][i]
  <2>3. Type(i) \in Types /\ Holds(Type(i), f)
    BY TypeType DEF IInv, FieldsSound, Sound
  <2>4. /\ BinaryField(Type(i), f) = f
        /\ Type(i) # "events" => TextField(Type(i), f) = f
        /\ Type(i) = "events" => TextField(Type(i), f) = [f EXCEPT !.total = Lesser(f.total, IntMax)]
    BY <2>3, RestoreSame
  <2>5. ASSUME Type(i) = "events", ~(f.total > IntMax)
        PROVE  [f EXCEPT !.total = Lesser(f.total, IntMax)] = f
    <3>1. EventsOK(f)
      BY <2>3, <2>5, TypeCases
    <3>2. f.total \in Int /\ IntMax \in Int
      BY <3>1, WidthFacts DEF EventsOK, Widths
    <3>3. Lesser(f.total, IntMax) = f.total
      BY <2>5, <3>2 DEF Lesser
    <3> QED
      BY <3>1, <3>3 DEF EventsOK
  <2> HIDE DEF f
  <2> QED
    BY <2>2, <2>4, <2>5 DEF f
<1>2. IInv /\ [Next]_vars => [A]_vars
  BY <1>1
<1> QED
  BY <1>2, Invariance, PTL DEF Spec, RestoreKeepsFields

\* A command leaves a field of events no date before the one it had.
LEMMA ApplyDates ==
  ASSUME NEW f, EventsOK(f), NEW c \in FieldCommands("events"), NEW T, IsTimer(T),
         ~Ahead("events", f, T), NEW x \in Units
  PROVE  LET d == Apply("events", f, c, T).date[x] IN d # -1 => d >= f.date[x]
<1>1. "events" \in Types /\ "events" \notin Logs \cup Ints /\ Holds("events", f)
  BY TypeCases
<1>2. f.date[x] \in Int /\ T.at \in [Units -> Periods] /\ T.at[x] \in Int
  BY CommandFacts, OneInt32 DEF EventsOK, IsTimer, Periods
<1>3. ~(f.date[x] > T.at[x])
  BY DEF Ahead
<1>4. f.date[x] <= T.at[x] /\ f.date[x] >= f.date[x]
  BY <1>2, <1>3
<1>5. CASE c.op = "get"
  <2>1. Apply("events", f, c, T) = UpdateEvents(f, T.at)
    BY <1>5 DEF Apply, Update
  <2>2. UpdateEvents(f, T.at).date = T.at
    BY <1>2, UpdateEventsShape
  <2> QED
    BY <1>2, <1>4, <2>1, <2>2
<1>6. CASE c.op = "clear"
  <2>1. Apply("events", f, c, T) = Clear("events", f)
    BY <1>6 DEF Apply
  <2>2. Clear("events", f).date[x] = -1
    BY <1>1, ClearHolds
  <2> QED
    BY <2>1, <2>2
<1>7. CASE c.op = "add" /\ c.n \in Amounts
  <2>1. Apply("events", f, c, T) = AddEvents(f, c.n, T)
    BY <1>1, <1>7 DEF Apply, Add
  <2>2. AddEvents(f, c.n, T).date = T.at
    BY <1>7, CommandFacts, AddEventsShape
  <2> QED
    BY <1>2, <1>4, <2>1, <2>2
<1>8. CASE c.op = "total_set"
  <2>1. Apply("events", f, c, T) = [f EXCEPT !.total = c.n]
    BY <1>8 DEF Apply
  <2>2. [f EXCEPT !.total = c.n].date = f.date
    BY DEF EventsOK
  <2> QED
    BY <1>4, <2>1, <2>2
<1> QED
  BY <1>1, <1>5, <1>6, <1>7, <1>8, CommandCases

\* Within one process the hour, the day and the month of the timer and of a
\* field never go back: Fields.TimeNeverGoesBack (Timer::refresh, the update()
\* of FieldEvents).
THEOREM TimeGoesOn == Spec => TimeNeverGoesBack
<1> DEFINE A == (restarts' = restarts /\ beyond' = FALSE) =>
                  /\ \A x \in Units : timer'.at[x] >= timer.at[x]
                  /\ \A e \in Of({"events"}) : \A x \in Units :
                       LET f == field'[e[1]][e[2]]
                       IN  f.date[x] # -1 => f.date[x] >= field[e[1]][e[2]].date[x]
<1>1. IInv /\ [Next]_vars => A
  <2> SUFFICES ASSUME IInv, [Next]_vars, restarts' = restarts, beyond' = FALSE
               PROVE  /\ \A x \in Units : timer'.at[x] >= timer.at[x]
                      /\ \A e \in Of({"events"}) : \A x \in Units :
                           LET f == field'[e[1]][e[2]]
                           IN  f.date[x] # -1 => f.date[x] >= field[e[1]][e[2]].date[x]
    OBVIOUS
  <2>1. /\ \A x \in Units : timer.at[x] >= timer.at[x] /\ Refreshed.at[x] >= timer.at[x]
        /\ IsTimer(timer) /\ IsTimer(Refreshed)
    <3>1. IsTimer(timer) /\ TimerOK
      BY DEF IInv, TimerOK
    <3>2. IsTimer(Refreshed) /\ \A x \in Units : Refreshed.at[x] >= timer.at[x]
      BY <3>1, RefreshedOK
    <3>3. \A x \in Units : timer.at[x] \in Int
      BY <3>1 DEF IsTimer, Periods
    <3> QED
      BY <3>1, <3>2, <3>3
  <2>2. ASSUME NEW e \in Of({"events"})
        PROVE  /\ e[1] \in DOMAIN field /\ e[2] \in DOMAIN defs /\ Type(e[2]) = "events"
               /\ EventsOK(field[e[1]][e[2]])
               /\ \A x \in Units : /\ field[e[1]][e[2]].date[x] \in Int
                                   /\ field[e[1]][e[2]].date[x] >= field[e[1]][e[2]].date[x]
    <3>1. e[1] \in DOMAIN field /\ e[2] \in DOMAIN defs /\ Type(e[2]) = "events"
      BY DEF Of
    <3>2. EventsOK(field[e[1]][e[2]])
      BY <3>1, TypeCases DEF IInv, FieldsSound, Sound
    <3>3. \A x \in Units : field[e[1]][e[2]].date[x] \in Int
      BY <3>2 DEF EventsOK, Periods
    <3> QED
      BY <3>1, <3>2, <3>3
  <2>3. CASE UNCHANGED <<timer, field>>
    BY <2>1, <2>2, <2>3
  <2>4. ASSUME NEW u \in Users, UserCreate(u)
        PROVE  UNCHANGED timer /\ \A v \in DOMAIN field : field'[v] = field[v]
    BY <2>4 DEF UserCreate, Known, timeVars
  <2>5. CASE \E u \in Users : UserCreate(u)
    BY <2>1, <2>2, <2>4, <2>5
  <2>6. ASSUME NEW i \in DOMAIN defs, TimerLock(i)
        PROVE  timer' \in {timer, Refreshed} /\ UNCHANGED field
    BY <2>6 DEF TimerLock
  <2>7. CASE \E i \in DOMAIN defs : TimerLock(i)
    BY <2>1, <2>2, <2>6, <2>7
  <2>8. CASE Execute
    <3> DEFINE u == main.user
               i == main.field
               c == main.command
               T == IF Refreshes(Type(i), c) /\ ~main.held THEN Refreshed ELSE timer
               f == Apply(Type(i), field[u][i], c, T)
    <3>1. /\ timer' = T /\ field' = [field EXCEPT ![u][i] = f] /\ main.at = "command"
          /\ ~Ahead(Type(i), field[u][i], T)
      BY <2>8 DEF Execute
    <3>2. T \in {timer, Refreshed} /\ IsTimer(T)
      BY <2>1
    <3>3. u \in DOMAIN field /\ i \in DOMAIN defs /\ c \in FieldCommands(Type(i))
      BY <3>1 DEF IInv, MainOK
    <3> HIDE DEF u, i, c, T, f
    <3>4. \A v \in DOMAIN field : \A j \in DOMAIN defs :
             field'[v][j] = IF v = u /\ j = i THEN f ELSE field[v][j]
      BY <3>1, <3>3, EntryChanged DEF IInv, FieldsSound
    <3>5. ASSUME NEW e \in Of({"events"}), NEW x \in Units, field'[e[1]][e[2]].date[x] # -1
          PROVE  field'[e[1]][e[2]].date[x] >= field[e[1]][e[2]].date[x]
      <4>1. CASE e[1] = u /\ e[2] = i
        <5>1. Type(i) = "events" /\ EventsOK(field[u][i])
          BY <2>2, <4>1
        <5>2. f = Apply("events", field[u][i], c, T)
          BY <5>1 DEF f
        <5>3. f.date[x] # -1 => f.date[x] >= field[u][i].date[x]
          BY <3>1, <3>2, <3>3, <5>1, <5>2, ApplyDates
        <5> QED
          BY <3>3, <3>4, <3>5, <4>1, <5>3
      <4>2. CASE ~(e[1] = u /\ e[2] = i)
        BY <2>2, <3>4, <4>2
      <4> QED
        BY <4>1, <4>2
    <3> QED
      BY <2>1, <3>1, <3>2, <3>5
  <2>9. CASE \E u \in Users : Visit(u)
    <3>1. PICK u \in Users : Visit(u)
      BY <2>9
    <3> DEFINE i == report.field
               f == Update(Type(i), field[u][i], timer)
    <3>2. /\ UNCHANGED timer /\ field' = [field EXCEPT ![u][i] = f]
          /\ report.at = "scan" /\ u \in report.left /\ ~Ahead(Type(i), field[u][i], timer)
      BY <3>1 DEF Visit, timeVars
    <3>3. u \in DOMAIN field /\ i \in DOMAIN defs
      BY <3>2 DEF IInv, ReportOK
    <3> HIDE DEF i, f
    <3>4. \A v \in DOMAIN field : \A j \in DOMAIN defs :
             field'[v][j] = IF v = u /\ j = i THEN f ELSE field[v][j]
      BY <3>2, <3>3, EntryChanged DEF IInv, FieldsSound
    <3>5. ASSUME NEW e \in Of({"events"}), NEW x \in Units
          PROVE  field'[e[1]][e[2]].date[x] >= field[e[1]][e[2]].date[x]
      <4>1. CASE e[1] = u /\ e[2] = i
        <5>1. Type(i) = "events" /\ EventsOK(field[u][i]) /\ field[u][i].date[x] \in Int
          BY <2>2, <4>1
        <5>2. f = UpdateEvents(field[u][i], timer.at) /\ timer.at \in [Units -> Periods]
          BY <2>1, <5>1 DEF f, Update, IsTimer
        <5>3. f.date = timer.at
          BY <5>1, <5>2, UpdateEventsShape
        <5>4. ~(field[u][i].date[x] > timer.at[x]) /\ timer.at[x] \in Int
          BY <3>2, <5>1, <5>2 DEF Ahead, Periods
        <5> QED
          BY <3>3, <3>4, <4>1, <5>1, <5>3, <5>4
      <4>2. CASE ~(e[1] = u /\ e[2] = i)
        BY <2>2, <3>4, <4>2
      <4> QED
        BY <4>1, <4>2
    <3> QED
      BY <2>1, <3>2, <3>5
  <2>10. ASSUME NEW config \in Configs, NEW text \in BOOLEAN, Restart(config, text)
         PROVE  FALSE
    <3>1. restarts' = restarts + 1 /\ restarts \in Nat
      BY <2>10 DEF Restart, IInv
    <3> QED
      BY <3>1
  <2>11. \/ UNCHANGED <<timer, field>>
         \/ \E u \in Users : UserCreate(u)
         \/ \E i \in DOMAIN defs : TimerLock(i)
         \/ Execute
         \/ \E u \in Users : Visit(u)
         \/ \E config \in Configs, text \in BOOLEAN : Restart(config, text)
    BY DEF Next, Tick, SetBack, FieldsAdd, Begin, Skip, TimerUnlock, vars, timeVars
  <2> QED
    BY <2>3, <2>5, <2>7, <2>8, <2>9, <2>10, <2>11
<1>2. IInv /\ [Next]_vars => [A]_vars
  BY <1>1
<1> QED
  BY <1>2, Invariance, PTL DEF Spec, TimeNeverGoesBack
-----------------------------------------------------------------------------
\* The time under a walk.

\* A report that walks holds the timer, and a command that had found it free
\* before that has yet to change the time.
WalkInv ==
  /\ \/ report.at = "idle" /\ locks = 0
     \/ report.at = "scan" /\ locks = 1
  /\ (main.at = "command" /\ ~main.held /\ report.at = "scan") =>
       report.raced /\ timer.at = report.since

\* A command that begins under a walk finds the timer held.
LEMMA BeginWalk ==
  ASSUME WalkInv, NEW u, NEW i, NEW c, Begin(u, i, c)
  PROVE  WalkInv' /\ UNCHANGED timer
<1>1. UNCHANGED <<timer, locks, report>> /\ main'.held = (locks > 0)
  BY DEF Begin, timeVars
<1>2. report.at = "scan" => locks > 0
  BY DEF WalkInv
<1>3. report.at = "scan" => main'.held
  BY <1>1, <1>2, Zenon
<1> QED  BY <1>1, <1>3 DEF WalkInv

\* A walk begins with no other, and knows of the command that found no lock.
LEMMA LockWalk ==
  ASSUME WalkInv, NEW i, TimerLock(i)
  PROVE  WalkInv' /\ report.at = "idle"
<1>1. report.at = "idle" /\ UNCHANGED main /\ locks' = locks + 1
  BY DEF TimerLock, Idle
<1>2. report'.at = "scan" /\ timer'.at = report'.since
      /\ report'.raced = (main.at = "command" /\ ~main.held)
  BY DEF TimerLock
<1>3. locks' = 1
  BY <1>1 DEF WalkInv
<1> QED  BY <1>1, <1>2, <1>3 DEF WalkInv

\* While a report walks the users the time changes at most once, by a command
\* that found the timer free before: Fields.OneChangeUnderWalk (Timer::refresh,
\* Timer::lock).
THEOREM TimeHolds == Spec => OneChangeUnderWalk
<1> DEFINE A == (report.at = "scan" /\ report'.at = "scan" /\ timer' # timer) =>
                  main.at = "command" /\ ~main.held /\ report.raced /\ timer.at = report.since
<1>1. Init => WalkInv
  BY DEF Init, WalkInv, Idle, TimerInit
<1>2. IInv /\ WalkInv /\ [Next]_vars => WalkInv' /\ A
  <2> SUFFICES ASSUME IInv, WalkInv, [Next]_vars PROVE WalkInv' /\ A
    OBVIOUS
  <2>1. CASE UNCHANGED <<timer, locks, main, report>>
    BY <2>1 DEF WalkInv
  <2>2. CASE Execute
    <3>1. UNCHANGED <<locks, report>> /\ main'.at = "idle" /\ main.at = "command"
      BY <2>2 DEF Execute, Idle
    <3>2. main.held => UNCHANGED timer
      BY <2>2 DEF Execute
    <3> QED  BY <3>1, <3>2 DEF WalkInv
  <2>3. ASSUME NEW u \in Users, Visit(u) \/ Skip(u) PROVE WalkInv' /\ A
    <3>1. UNCHANGED <<timer, locks, main>> /\ report.at = "scan"
      BY <2>3 DEF Visit, Skip, timeVars
    <3>2. report \in [at : {"scan"}, field : DOMAIN defs, left : SUBSET DOMAIN field,
                       result : Results, since : [Units -> Periods], raced : BOOLEAN]
      BY <3>1 DEF IInv, ReportOK
    <3>3. report'.at = report.at /\ report'.raced = report.raced /\ report'.since = report.since
      BY <2>3, <3>2 DEF Visit, Skip
    <3> QED  BY <3>1, <3>3 DEF WalkInv
  <2>4. CASE TimerUnlock
    <3>1. report'.at = "idle" /\ locks' = Greater(0, locks - 1) /\ report.at = "scan"
      BY <2>4 DEF TimerUnlock, Idle
    <3>2. locks' = 0
      BY <3>1 DEF WalkInv, Greater
    <3> QED  BY <3>1, <3>2 DEF WalkInv
  <2>5. ASSUME NEW c \in Configs, NEW text \in BOOLEAN, Restart(c, text) PROVE WalkInv' /\ A
    <3>1. UNCHANGED <<locks, main, report>> /\ main.at = "idle" /\ report.at = "idle"
      BY <2>5 DEF Restart, Idle
    <3> QED  BY <3>1 DEF WalkInv
  <2>6. CASE Next
    <3>1. ASSUME NEW u \in DOMAIN field, NEW i \in DOMAIN defs,
                 \E c \in FieldCommands(Type(i)) : Begin(u, i, c)
          PROVE  WalkInv' /\ A
      BY <3>1, BeginWalk
    <3>2. ASSUME NEW i \in DOMAIN defs, TimerLock(i) PROVE WalkInv' /\ A
      BY <3>2, LockWalk
    <3>3. ASSUME NEW n \in Names, NEW t \in NewTypes, FieldsAdd(n, t) PROVE WalkInv' /\ A
      BY <3>3, <2>1 DEF FieldsAdd, timeVars
    <3>4. ASSUME NEW u \in Users, UserCreate(u) PROVE WalkInv' /\ A
      BY <3>4, <2>1 DEF UserCreate, timeVars
    <3>5. CASE (Tick \/ SetBack) /\ UNCHANGED <<main, report>>
      <4>1. UNCHANGED <<timer, locks>>
        BY <3>5 DEF Tick, SetBack
      <4> QED  BY <2>1, <3>5, <4>1
    <3> QED  BY <2>2, <2>3, <2>4, <2>5, <2>6, <3>1, <3>2, <3>3, <3>4, <3>5 DEF Next
  <2> QED  BY <2>1, <2>6 DEF vars, timeVars
<1>3. IInv /\ WalkInv /\ [Next]_vars => [A]_vars
  BY <1>2
<1> QED  BY <1>1, <1>2, <1>3, Invariance, PTL DEF Spec, OneChangeUnderWalk
=============================================================================
