----------------------------- MODULE StatsVector -----------------------------
(***************************************************************************)
(* StatsVector (field.hh, field.cc): a bounded vector of samples, newest   *)
(* first, whose samples are integers of 1, 2, 4 or 8 bytes and whose       *)
(* length is counted in one byte.  A vector is a record of the width of    *)
(* its samples and the sequence of the samples below count: what lies      *)
(* above count in the C++ array is written again before it is read.        *)
(***************************************************************************)
EXTENDS Integers, Sequences, SequencesExt

CONSTANTS
  Values,  \* Values[w]: how many values an integer of w bytes has
  Counts   \* how many values uint8_t count has

Widths == {1, 2, 4, 8}

ASSUME ValuesAssumption ==
  /\ Values \in [Widths -> Nat \ {0}]
  /\ \A w \in Widths : Values[w] % 2 = 0
  /\ \A w \in Widths \ {8} : Values[2 * w] >= 4 * Values[w]
  /\ Counts \in Nat \ {0, 1}

Vectors == [width : Widths, samples : Seq(Int)]

Lesser(a, b)  == IF a <= b THEN a ELSE b
Greater(a, b) == IF a >= b THEN a ELSE b

Half(w) == Values[w] \div 2

\* The conversion of C++ to type_s.
Cast(x, w, unsigned) ==
  IF unsigned THEN x % Values[w] ELSE ((x + Half(w)) % Values[w]) - Half(w)

ToInt(x) == Cast(x, 4, FALSE)
IntMax   == Half(4) - 1
Ints32   == -Half(4) .. IntMax

Zeros(n)    == [i \in 1 .. n |-> 0]
Empty(w)    == [width |-> w, samples |-> <<>>]
Count(v)    == Len(v.samples)
Sample(v, n) == IF n < Count(v) THEN ToInt(v.samples[n + 1]) ELSE 0

\* No sample is written when n is not below count, and set_sample says so.
SetSample(v, n, x, unsigned) ==
  IF n < Count(v)
  THEN [v EXCEPT !.samples[n + 1] = Cast(x, v.width, unsigned)]
  ELSE v

SumOf(samples) == FoldLeft(LAMBDA a, b : a + b, 0, samples)

Sum(v, n) ==
  LET j == IF n # 0 THEN Lesser(n, Count(v)) ELSE Count(v)
  IN  ToInt(SumOf(SubSeq(v.samples, 1, j)))

\* translate(): n new periods, of which nothing is counted yet.
Translate(v, n, len) ==
  LET delta == Lesser(n, len)
      moved == SubSeq(v.samples, 1, Lesser(Count(v), len - delta))
      count == Lesser(Count(v) + delta, len) % Counts
  IN  [v EXCEPT !.samples = SubSeq(Zeros(delta) \o moved, 1, count)]

Delete(v, n) ==
  IF n \in 0 .. Count(v) - 1 THEN [v EXCEPT !.samples = RemoveAt(@, n + 1)] ELSE v

\* The first position of n, -1 if there is none.
Find(v, n, unsigned) ==
  LET at == {i \in 1 .. Count(v) : v.samples[i] = Cast(n, v.width, unsigned)}
  IN  IF at = {} THEN -1 ELSE (CHOOSE i \in at : \A j \in at : i <= j) - 1

-----------------------------------------------------------------------------
\* inc(), and the vector of wider samples that takes over when it fails.

Started(v) == IF Count(v) = 0 THEN [v EXCEPT !.samples = <<0>>] ELSE v

Fits(v, n, unsigned) ==
  LET x == ToInt(Started(v).samples[1] + n)
  IN  (unsigned /\ x < 0) \/ x = ToInt(Cast(x, v.width, unsigned))

Inc(v, n, unsigned) ==
  LET x == ToInt(Started(v).samples[1] + n)
  IN  IF ~Fits(v, n, unsigned) THEN Started(v)
      ELSE [Started(v) EXCEPT !.samples[1] =
              IF unsigned /\ x < 0 THEN 0 ELSE Cast(x, v.width, unsigned)]

Widened(v) == [Started(v) EXCEPT !.width = 2 * @]

\* Mutant: the sample that did not fit is widened, and not added to.
MutIncOrExpand(v, n, unsigned) ==
  IF Fits(v, n, unsigned) \/ v.width = 4
  THEN Inc(v, n, unsigned)
  ELSE Widened(v)

\* A second inc() that fails too leaves the copy as it is.
IncOrExpand(v, n, unsigned) ==
  IF Fits(v, n, unsigned) \/ v.width = 4
  THEN Inc(v, n, unsigned)
  ELSE Inc(Widened(v), n, unsigned)

-----------------------------------------------------------------------------
\* The vectors of a report, to which those of each user are added.

Padded(v, n) ==
  [v EXCEPT !.samples = @ \o Zeros(Greater(0, n - Len(@)))]

AddVector(v, w) ==
  LET p == Padded(v, Count(w))
  IN  [p EXCEPT !.samples = [i \in DOMAIN @ |-> @[i] + Sample(w, i - 1)]]

CountActive(v, w) ==
  LET p == Padded(v, Count(w))
  IN  [p EXCEPT !.samples =
         [i \in DOMAIN @ |-> @[i] + (IF Sample(w, i - 1) # 0 THEN 1 ELSE 0)]]

-----------------------------------------------------------------------------
\* A number written to a text dump and read back by Parser::read_int, which
\* keeps the greatest int for what does not fit one.
TextInt(x) == Lesser(x, IntMax)

TextVector(v, len, unsigned) ==
  [v EXCEPT !.samples =
     [i \in 1 .. Lesser(Len(@) % Counts, len) |->
        Cast(TextInt(ToInt(@[i])), v.width, unsigned)]]

BinaryVector(v, len) ==
  [v EXCEPT !.samples = SubSeq(@, 1, Lesser(Len(@), len))]
=============================================================================
