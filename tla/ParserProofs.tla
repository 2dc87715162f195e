---------------------------- MODULE ParserProofs ----------------------------
(***************************************************************************)
(* What Queries keeps of ExprParser, for any texts and groups.  The parser *)
(* reads the words in order; its pending calls are nested as parentheses   *)
(* are, so counting those tells the depth of the text; and the stack holds *)
(* an operand for each call that will pop one, or the text misses one.     *)
(* Bottom(calls) lists the pending calls from the outermost on, so that a  *)
(* call and a return change its last place only.                           *)
(***************************************************************************)
EXTENDS RankingProofs

\* The least of a set of numbers.
LEMMA Least ==
  ASSUME NEW S, S \subseteq Nat, S # {}
  PROVE  Min(S) \in S /\ \A y \in S : Min(S) <= y
<1>1. \E x \in S : \A y \in S : <<y, x>> \notin OpToRel(<, Nat)
  BY NatLessThanWellFounded, WFMin
<1>2. PICK x \in S : \A y \in S : ~(y < x)
  BY <1>1 DEF OpToRel
<1>3. \A y \in S : x <= y
  BY <1>2
<1> QED
  BY <1>3 DEF Min

-----------------------------------------------------------------------------
\* The words that texts are made of.
Vocabulary == Reserved \cup DOMAIN Matches \cup GroupNames \cup UNION {ToSet(t) : t \in Texts}

WordLists == Seq(Vocabulary)

\* The words that the parser has not read are the last of the text.
Reading ==
  /\ text \in WordLists /\ words \in WordLists
  /\ Len(words) <= Len(text)
  /\ \A i \in 1 .. Len(words) : words[i] = text[Len(text) - Len(words) + i]

\* How many it has read.
Read == Len(text) - Len(words)

\* One word is read, or the end of the text is seen again.
LEMMA WordRead ==
  ASSUME Reading, text' = text, words' = Rest
  PROVE  /\ Reading'
         /\ \/ Next1 = End /\ Read' = Read
            \/ Read \in Nat /\ Read' = Read + 1 /\ Read' \in DOMAIN text /\ text[Read'] = Next1
<1>1. /\ text \in WordLists /\ words \in WordLists /\ Len(words) <= Len(text)
      /\ \A i \in 1 .. Len(words) : words[i] = text[Len(text) - Len(words) + i]
      /\ Len(text) \in Nat /\ Len(words) \in Nat /\ DOMAIN text = 1 .. Len(text)
  BY LenProperties DEF Reading, WordLists
<1>2. CASE words = <<>>
  <2>1. words' = words /\ Next1 = End
    BY <1>2 DEF Rest, Next1
  <2> QED
    BY <1>1, <2>1 DEF Reading, Read
<1>3. CASE words # <<>>
  <2>1. words' = Tail(words) /\ Next1 = Head(words)
    BY <1>3 DEF Rest, Next1
  <2>2. /\ Head(words) = words[1] /\ Tail(words) \in WordLists /\ Len(Tail(words)) = Len(words) - 1
        /\ \A i \in 1 .. Len(Tail(words)) : Tail(words)[i] = words[i + 1]
    BY <1>1, <1>3, HeadTailProperties DEF WordLists
  <2>3. Len(words) >= 1
    BY <1>1, <1>3, EmptySeq
  <2>4. /\ Len(words') = Len(words) - 1 /\ Len(words') \in Nat
        /\ \A i \in 1 .. Len(words') : words'[i] = words[i + 1]
    BY <1>1, <2>1, <2>2, <2>3
  <2>5. ASSUME NEW i \in 1 .. Len(words') PROVE words'[i] = text[Len(text) - Len(words') + i]
    <3>1. i + 1 \in 1 .. Len(words) /\ Len(text) - Len(words) + (i + 1) = Len(text) - Len(words') + i
      BY <1>1, <2>4
    <3>2. words[i + 1] = text[Len(text) - Len(words) + (i + 1)]
      BY <1>1, <3>1
    <3> QED
      BY <2>4, <3>1, <3>2
  <2>6. Reading'
    <3>1. words' \in WordLists /\ Len(words') <= Len(text)
      BY <1>1, <2>1, <2>2, <2>4
    <3> QED
      BY <1>1, <2>5, <3>1 DEF Reading
  <2>7. words[1] = text[Len(text) - Len(words) + 1]
    BY <1>1, <2>3
  <2>8. Read \in Nat /\ Read' = Read + 1 /\ Read' \in 1 .. Len(text)
        /\ Read' = Len(text) - Len(words) + 1
    BY <1>1, <2>3, <2>4 DEF Read
  <2> QED
    BY <1>1, <2>1, <2>2, <2>6, <2>7, <2>8
<1> QED
  BY <1>2, <1>3

\* All the words of a list of groups are read, and the one that ends it.
LEMMA BracketsRead ==
  ASSUME Reading, Brackets
  PROVE  /\ Reading' /\ text' = text
         /\ Read \in Nat /\ Read' \in Nat /\ Read < Read' /\ Read' <= Len(text)
         /\ text[Read + 1] = "["
         /\ \/ /\ current' = End /\ \A m \in Read + 2 .. Read' : text[m] \in GroupNames
            \/ /\ current' = text[Read'] /\ Read + 1 < Read'
               /\ \A m \in Read + 2 .. Read' - 1 : text[m] \in GroupNames
<1> DEFINE tail == Tail(words)
           Stops(w) == w \in {"]", End} \/ w \notin GroupNames
           I == {i \in 1 .. Len(tail) : Stops(tail[i])}
           stop == SelectInSeq(tail, LAMBDA w : w \in {"]", End} \/ w \notin GroupNames)
<1>1. /\ text \in WordLists /\ words \in WordLists /\ Len(words) <= Len(text)
      /\ \A i \in 1 .. Len(words) : words[i] = text[Len(text) - Len(words) + i]
      /\ Len(text) \in Nat /\ Len(words) \in Nat /\ DOMAIN text = 1 .. Len(text)
  BY LenProperties DEF Reading, WordLists
<1>2. words # <<>> /\ words[1] = "[" /\ text' = text
  <2>1. Next1 = "[" /\ text' = text
    BY DEF Brackets
  <2> QED
    BY <2>1 DEF Next1, End
<1>3. /\ tail \in WordLists /\ Len(tail) = Len(words) - 1 /\ Len(words) >= 1
      /\ \A i \in 1 .. Len(tail) : tail[i] = words[i + 1]
  <2>1. /\ Tail(words) \in WordLists /\ Len(Tail(words)) = Len(words) - 1
        /\ \A i \in 1 .. Len(Tail(words)) : Tail(words)[i] = words[i + 1]
    BY <1>1, <1>2, HeadTailProperties DEF WordLists
  <2>2. Len(words) >= 1
    BY <1>1, <1>2, EmptySeq
  <2> QED
    BY <2>1, <2>2
<1>4. stop = IF I # {} THEN Min(I) ELSE 0
  BY DEF SelectInSeq
<1>5. /\ current' = IF stop = 0 THEN End ELSE tail[stop]
      /\ words' = IF stop = 0 THEN <<>> ELSE SubSeq(words, stop + 2, Len(words))
  BY DEF Brackets
<1> HIDE DEF tail, stop
<1>6. CASE I = {}
  <2>1. stop = 0 /\ current' = End /\ words' = <<>>
    BY <1>4, <1>5, <1>6
  <2>2. \A i \in 1 .. Len(tail) : tail[i] \in GroupNames
    BY <1>6
  <2>3. Len(words') = 0 /\ words' \in WordLists
    BY <2>1, EmptySeq DEF WordLists
  <2>4. Reading'
    BY <1>1, <1>2, <2>3 DEF Reading
  <2>5. Read = Len(text) - Len(words) /\ Read' = Len(text)
    BY <1>1, <1>2, <2>3 DEF Read
  <2>6. ASSUME NEW m \in Read + 2 .. Read' PROVE text[m] \in GroupNames
    <3>1. m - Read \in 1 .. Len(words) /\ (m - Read) - 1 \in 1 .. Len(tail)
          /\ ((m - Read) - 1) + 1 = m - Read /\ Len(text) - Len(words) + (m - Read) = m
      BY <1>1, <1>3, <2>5
    <3>2. words[m - Read] = text[m]
      BY <1>1, <3>1
    <3>3. tail[(m - Read) - 1] = words[m - Read]
      BY <1>3, <3>1
    <3> QED
      BY <2>2, <3>1, <3>2, <3>3
  <2>7. Read \in Nat /\ Read' \in Nat /\ Read < Read' /\ Read' <= Len(text)
        /\ Len(text) - Len(words) + 1 = Read + 1
    BY <1>1, <1>3, <2>5
  <2>8. text[Read + 1] = "["
    BY <1>1, <1>2, <1>3, <2>7
  <2> QED
    BY <1>2, <2>1, <2>4, <2>6, <2>7, <2>8
<1>7. CASE I # {}
  <2>1. /\ stop \in I /\ \A i \in I : stop <= i
    <3>1. I \subseteq Nat
      BY <1>1, <1>3
    <3> QED
      BY <1>4, <1>7, <3>1, Least
  <2>2. stop \in 1 .. Len(tail) /\ stop \in Nat /\ stop >= 1 /\ stop <= Len(words) - 1
    BY <1>1, <1>3, <2>1
  <2>3. current' = tail[stop] /\ words' = SubSeq(words, stop + 2, Len(words))
    BY <1>5, <2>2
  <2>4. \A i \in 1 .. stop - 1 : i \in 1 .. Len(tail) /\ tail[i] \in GroupNames
    <3> SUFFICES ASSUME NEW i \in 1 .. stop - 1 PROVE i \in 1 .. Len(tail) /\ tail[i] \in GroupNames
      OBVIOUS
    <3>1. i \in 1 .. Len(tail) /\ ~(stop <= i)
      BY <1>1, <1>3, <2>2
    <3> QED
      BY <2>1, <3>1
  <2>5. \A i \in stop + 2 .. Len(words) : words[i] \in Vocabulary
    <3>1. \A i \in stop + 2 .. Len(words) : i \in 1 .. Len(words)
      BY <1>1, <2>2
    <3> QED
      BY <1>1, <3>1, ElementOfSeq DEF WordLists
  <2>6. /\ words' \in WordLists
        /\ Len(words') = IF stop + 2 <= Len(words) THEN Len(words) - (stop + 2) + 1 ELSE 0
        /\ \A i \in 1 .. Len(words) - (stop + 2) + 1 : words'[i] = words[(stop + 2) + i - 1]
    BY <1>1, <2>2, <2>3, <2>5, SubSeqProperties DEF WordLists
  <2>7. Len(words') = Len(words) - (stop + 1) /\ Len(words') \in Nat
    BY <1>1, <2>2, <2>6
  <2>8. ASSUME NEW i \in 1 .. Len(words') PROVE words'[i] = text[Len(text) - Len(words') + i]
    <3>1. /\ i \in 1 .. Len(words) - (stop + 2) + 1 /\ (stop + 2) + i - 1 \in 1 .. Len(words)
          /\ Len(text) - Len(words) + ((stop + 2) + i - 1) = Len(text) - Len(words') + i
      BY <1>1, <2>2, <2>7
    <3>2. words[(stop + 2) + i - 1] = text[Len(text) - Len(words) + ((stop + 2) + i - 1)]
      BY <1>1, <3>1
    <3>3. words'[i] = words[(stop + 2) + i - 1]
      BY <2>6, <3>1
    <3> QED
      BY <3>1, <3>2, <3>3
  <2>9. Reading'
    <3>1. words' \in WordLists /\ Len(words') <= Len(text)
      BY <1>1, <2>2, <2>6, <2>7
    <3> QED
      BY <1>1, <1>2, <2>8, <3>1 DEF Reading
  <2>10. Read = Len(text) - Len(words) /\ Read' = Read + (stop + 1) /\ Read \in Nat /\ Read' \in Nat
    BY <1>1, <1>2, <2>2, <2>7 DEF Read
  <2>11. \A k \in 1 .. Len(tail) : tail[k] = text[Read + (k + 1)]
    <3> SUFFICES ASSUME NEW k \in 1 .. Len(tail) PROVE tail[k] = text[Read + (k + 1)]
      OBVIOUS
    <3>1. k + 1 \in 1 .. Len(words)
      BY <1>1, <1>3
    <3>2. words[k + 1] = text[Len(text) - Len(words) + (k + 1)]
      BY <1>1, <3>1
    <3> QED
      BY <1>3, <2>10, <3>2
  <2>12. ASSUME NEW m \in Read + 2 .. Read' - 1 PROVE text[m] \in GroupNames
    <3>1. (m - Read) - 1 \in 1 .. stop - 1 /\ Read + (((m - Read) - 1) + 1) = m
      BY <2>2, <2>10
    <3> QED
      BY <2>4, <2>11, <3>1
  <2>13. current' = text[Read']
    BY <2>2, <2>3, <2>10, <2>11
  <2>14. Read < Read' /\ Read' <= Len(text) /\ Read + 1 < Read'
         /\ Len(text) - Len(words) + 1 = Read + 1
    BY <1>1, <2>2, <2>10
  <2>15. text[Read + 1] = "["
    BY <1>1, <1>2, <1>3, <2>14
  <2> QED
    BY <1>2, <2>9, <2>10, <2>12, <2>13, <2>14, <2>15
<1> QED
  BY <1>6, <1>7

\* How many of the first n places hold x.
Tally(f, n, x) == Cardinality({k \in 1 .. n : f[k] = x})

\* No place, no x.
LEMMA CountStarts ==
  ASSUME NEW f, NEW x
  PROVE  Tally(f, 0, x) = 0
<1>1. {k \in 1 .. 0 : f[k] = x} = {}
  OBVIOUS
<1> QED
  BY <1>1, FS_EmptySet DEF Tally

\* The tally is a number, and not 0 if some place holds x.
LEMMA CountIsNat ==
  ASSUME NEW f, NEW n \in Nat, NEW x
  PROVE  /\ IsFiniteSet({k \in 1 .. n : f[k] = x}) /\ Tally(f, n, x) \in Nat
         /\ \A k \in 1 .. n : f[k] = x => Tally(f, n, x) >= 1
<1> DEFINE K == {k \in 1 .. n : f[k] = x}
<1>1. IsFiniteSet(1 .. n)
  BY FS_Interval
<1>2. IsFiniteSet(K)
  <2>1. K \subseteq 1 .. n
    OBVIOUS
  <2> QED
    BY <1>1, <2>1, FS_Subset
<1>3. Cardinality(K) \in Nat /\ (K # {} => Cardinality(K) # 0)
  BY <1>2, FS_CardinalityType, FS_EmptySet
<1>4. \A k \in 1 .. n : f[k] = x => K # {}
  OBVIOUS
<1> HIDE DEF K
<1>5. \A k \in 1 .. n : f[k] = x => Cardinality(K) >= 1
  BY <1>3, <1>4
<1> QED
  BY <1>2, <1>3, <1>5 DEF K, Tally

\* Places that do not hold x leave the tally as it is.
LEMMA CountSame ==
  ASSUME NEW f, NEW g, NEW m \in Nat, NEW n \in Nat, m <= n, NEW x,
         \A k \in 1 .. m : f[k] = g[k],
         \A k \in m + 1 .. n : g[k] # x
  PROVE  Tally(g, n, x) = Tally(f, m, x)
<1>1. {k \in 1 .. n : g[k] = x} = {k \in 1 .. m : f[k] = x}
  <2>1. \A k \in 1 .. n : g[k] = x => k \in 1 .. m
    OBVIOUS
  <2>2. \A k \in 1 .. m : k \in 1 .. n
    OBVIOUS
  <2> QED
    BY <2>1, <2>2
<1> QED
  BY <1>1 DEF Tally

\* One more place holds x.
LEMMA CountMore ==
  ASSUME NEW f, NEW g, NEW m \in Nat, NEW x,
         \A k \in 1 .. m : f[k] = g[k],
         g[m + 1] = x
  PROVE  Tally(g, m + 1, x) = Tally(f, m, x) + 1
<1> DEFINE K == {k \in 1 .. m : f[k] = x}
           L == {k \in 1 .. m + 1 : g[k] = x}
<1>1. L = K \cup {m + 1} /\ m + 1 \notin K
  <2>1. \A k \in 1 .. m + 1 : k = m + 1 \/ k \in 1 .. m
    OBVIOUS
  <2> QED
    BY <2>1
<1>2. IsFiniteSet(K)
  <2>1. K \subseteq 1 .. m /\ IsFiniteSet(1 .. m)
    BY FS_Interval
  <2> HIDE DEF K
  <2> QED
    BY <2>1, FS_Subset
<1> HIDE DEF K, L
<1>3. m + 1 \notin K
  BY <1>1
<1>4. Cardinality(K \cup {m + 1}) = Cardinality(K) + 1
  BY <1>2, <1>3, FS_AddElement, Zenon
<1> QED
  BY <1>1, <1>4 DEF K, L, Tally

\* The depth of a text, from one word to the next.
LEMMA Depths ==
  ASSUME NEW t, NEW i \in Nat
  PROVE  /\ Depth(t, i) = Tally(t, i, "(") - Tally(t, i, ")")
         /\ Depth(t, i) \in Int /\ Depth(t, 0) = 0
         /\ t[i + 1] = "(" => Depth(t, i + 1) = Depth(t, i) + 1
         /\ t[i + 1] = ")" => Depth(t, i + 1) = Depth(t, i) - 1
         /\ \A j \in Nat : (i <= j /\ \A k \in i + 1 .. j : t[k] \notin {"(", ")"})
                             => Depth(t, j) = Depth(t, i)
<1>1. \A j \in Nat : Depth(t, j) = Tally(t, j, "(") - Tally(t, j, ")")
  BY DEF Depth, Tally
<1>2. \A j \in Nat : Tally(t, j, "(") \in Nat /\ Tally(t, j, ")") \in Nat
  BY CountIsNat
<1>3. Tally(t, 0, "(") = 0 /\ Tally(t, 0, ")") = 0
  BY CountStarts
<1>4. ASSUME NEW j \in Nat, i <= j, NEW x, \A k \in i + 1 .. j : t[k] # x
      PROVE  Tally(t, j, x) = Tally(t, i, x)
  BY <1>4, CountSame
<1>5. ASSUME NEW x, t[i + 1] = x PROVE Tally(t, i + 1, x) = Tally(t, i, x) + 1
  BY <1>5, CountMore
<1>6. ASSUME NEW x, t[i + 1] # x PROVE Tally(t, i + 1, x) = Tally(t, i, x)
  <2>1. i + 1 \in Nat /\ i <= i + 1 /\ \A k \in i + 1 .. i + 1 : t[k] # x
    BY <1>6
  <2> QED
    BY <1>4, <2>1
<1>7. t[i + 1] = "(" => Depth(t, i + 1) = Depth(t, i) + 1
  <2> SUFFICES ASSUME t[i + 1] = "(" PROVE Depth(t, i + 1) = Depth(t, i) + 1
    OBVIOUS
  <2>1. Tally(t, i + 1, "(") = Tally(t, i, "(") + 1 /\ Tally(t, i + 1, ")") = Tally(t, i, ")")
    BY <1>5, <1>6
  <2>2. i + 1 \in Nat
    OBVIOUS
  <2> QED
    BY <1>1, <1>2, <2>1, <2>2
<1>8. t[i + 1] = ")" => Depth(t, i + 1) = Depth(t, i) - 1
  <2> SUFFICES ASSUME t[i + 1] = ")" PROVE Depth(t, i + 1) = Depth(t, i) - 1
    OBVIOUS
  <2>1. Tally(t, i + 1, ")") = Tally(t, i, ")") + 1 /\ Tally(t, i + 1, "(") = Tally(t, i, "(")
    BY <1>5, <1>6
  <2>2. i + 1 \in Nat
    OBVIOUS
  <2> QED
    BY <1>1, <1>2, <2>1, <2>2
<1>9. ASSUME NEW j \in Nat, i <= j, \A k \in i + 1 .. j : t[k] \notin {"(", ")"}
      PROVE  Depth(t, j) = Depth(t, i)
  <2>1. Tally(t, j, "(") = Tally(t, i, "(") /\ Tally(t, j, ")") = Tally(t, i, ")")
    BY <1>4, <1>9
  <2> QED
    BY <1>1, <2>1
<1>10. Depth(t, i) \in Int /\ Depth(t, 0) = 0
  BY <1>1, <1>2, <1>3
<1> QED
  BY <1>1, <1>7, <1>8, <1>9, <1>10

-----------------------------------------------------------------------------
\* The pending calls, and the same with the outermost first.
Frames == {"expr", "(", "!"} \cup Operators

Bottom(c) == [k \in 1 .. Len(c) |-> c[Len(c) + 1 - k]]

\* A call is pushed on the list, so it is the last of Bottom.
LEMMA CallPushed ==
  ASSUME NEW c \in Seq(Frames), NEW a \in Frames, NEW d, d = <<a>> \o c
  PROVE  /\ d \in Seq(Frames) /\ Len(c) \in Nat /\ Len(d) = Len(c) + 1
         /\ Bottom(d)[Len(c) + 1] = a
         /\ \A k \in 1 .. Len(c) : Bottom(d)[k] = Bottom(c)[k]
<1>1. <<a>> \in Seq(Frames) /\ Len(<<a>>) = 1 /\ <<a>>[1] = a
  OBVIOUS
<1>2. /\ d \in Seq(Frames) /\ Len(d) = 1 + Len(c) /\ Len(c) \in Nat
      /\ \A i \in 1 .. 1 + Len(c) : d[i] = IF i <= 1 THEN <<a>>[i] ELSE c[i - 1]
  BY <1>1, ConcatProperties, LenProperties
<1>3. Len(d) = Len(c) + 1 /\ d[1] = a /\ \A i \in 1 .. Len(c) : d[i + 1] = c[i]
  BY <1>1, <1>2
<1>4. Bottom(d)[Len(c) + 1] = a
  BY <1>2, <1>3 DEF Bottom
<1>5. ASSUME NEW k \in 1 .. Len(c) PROVE Bottom(d)[k] = Bottom(c)[k]
  <2>1. /\ k \in 1 .. Len(d) /\ Len(c) + 1 - k \in 1 .. Len(c)
        /\ Len(d) + 1 - k = (Len(c) + 1 - k) + 1
    BY <1>2, <1>3
  <2>2. d[(Len(c) + 1 - k) + 1] = c[Len(c) + 1 - k]
    BY <1>3, <2>1
  <2> QED
    BY <2>1, <2>2 DEF Bottom
<1> QED
  BY <1>2, <1>3, <1>4, <1>5

\* The call that returns is the last of Bottom.
LEMMA CallPopped ==
  ASSUME NEW c \in Seq(Frames), c # <<>>, NEW d, d = Tail(c)
  PROVE  /\ d \in Seq(Frames) /\ Len(d) \in Nat /\ Len(c) = Len(d) + 1
         /\ Bottom(c)[Len(c)] = Head(c)
         /\ \A k \in 1 .. Len(d) : Bottom(d)[k] = Bottom(c)[k]
<1>1. /\ Head(c) = c[1] /\ d \in Seq(Frames) /\ Len(d) = Len(c) - 1 /\ Len(c) \in Nat
      /\ \A i \in 1 .. Len(d) : d[i] = c[i + 1]
  BY HeadTailProperties, LenProperties
<1>2. Len(c) >= 1
  BY <1>1, EmptySeq
<1>3. Len(d) \in Nat /\ Len(c) = Len(d) + 1
  BY <1>1, <1>2
<1>4. Bottom(c)[Len(c)] = Head(c)
  BY <1>1, <1>2 DEF Bottom
<1>5. ASSUME NEW k \in 1 .. Len(d) PROVE Bottom(d)[k] = Bottom(c)[k]
  <2>1. /\ k \in 1 .. Len(c) /\ Len(d) + 1 - k \in 1 .. Len(d)
        /\ Len(c) + 1 - k = (Len(d) + 1 - k) + 1
    BY <1>3
  <2>2. d[Len(d) + 1 - k] = c[(Len(d) + 1 - k) + 1]
    BY <1>1, <2>1
  <2> QED
    BY <2>1, <2>2 DEF Bottom
<1> QED
  BY <1>1, <1>3, <1>4, <1>5

\* Two words, one after the other.
LEMMA Two ==
  ASSUME NEW a, NEW b
  PROVE  <<a>> \o <<b>> = <<a, b>>
<1> DEFINE c == <<a>> \o <<b>>
<1>1. <<a>> \in Seq({a, b}) /\ <<b>> \in Seq({a, b}) /\ <<a, b>> \in Seq({a, b})
  OBVIOUS
<1>2. Len(<<a>>) = 1 /\ Len(<<b>>) = 1 /\ Len(<<a, b>>) = 2 /\ <<a>>[1] = a /\ <<b>>[1] = b
      /\ <<a, b>>[1] = a /\ <<a, b>>[2] = b
  OBVIOUS
<1>3. /\ c \in Seq({a, b}) /\ Len(c) = 2
      /\ \A i \in 1 .. 2 : c[i] = IF i <= 1 THEN <<a>>[i] ELSE <<b>>[i - 1]
  BY <1>1, <1>2, ConcatProperties
<1>4. c[1] = a /\ c[2] = b
  BY <1>2, <1>3
<1> HIDE DEF c
<1>5. \A i \in 1 .. Len(c) : c[i] = <<a, b>>[i]
  BY <1>2, <1>3, <1>4
<1>6. c = <<a, b>>
  BY <1>1, <1>2, <1>3, <1>5, SeqEqual
<1> QED
  BY <1>6 DEF c

\* A parenthesis waits for the expression in it.
Nested(f, n) ==
  \A k \in 1 .. n : /\ f[k] = "expr" => k > 1 /\ f[k - 1] = "("
                    /\ f[k] = "(" /\ k < n => f[k + 1] = "expr"

\* The innermost of the pending calls is x.
OnTop(x) == calls # <<>> /\ Bottom(calls)[Len(calls)] = x

Pending ==
  /\ parse \in {"idle", "element", "true", "false", "compiled", "wild"}
  /\ calls \in Seq(Frames)
  /\ Nested(Bottom(calls), Len(calls))
  /\ parse \in {"idle", "compiled"} => calls = <<>>
  /\ parse = "element" => ~OnTop("(")
  /\ parse = "true" /\ OnTop("(") => current \in {")", End}
  /\ parse = "false" /\ OnTop("(") => current \notin {")", End}

\* A call other than that of an expression keeps the nesting,
LEMMA NestedPush ==
  ASSUME NEW f, NEW g, NEW n \in Nat, Nested(f, n), \A k \in 1 .. n : g[k] = f[k],
         n > 0 => f[n] # "(", g[n + 1] # "expr"
  PROVE  Nested(g, n + 1)
<1> SUFFICES ASSUME NEW k \in 1 .. n + 1
             PROVE  /\ g[k] = "expr" => k > 1 /\ g[k - 1] = "("
                    /\ g[k] = "(" /\ k < n + 1 => g[k + 1] = "expr"
  BY DEF Nested
<1>1. CASE k = n + 1
  BY <1>1
<1>2. CASE k = n /\ n > 0
  <2>1. k \in 1 .. n /\ (k > 1 => k - 1 \in 1 .. n)
    BY <1>2
  <2> QED
    BY <1>2, <2>1 DEF Nested
<1>3. CASE k < n
  <2>1. k \in 1 .. n /\ k + 1 \in 1 .. n /\ (k > 1 => k - 1 \in 1 .. n)
    BY <1>3
  <2> QED
    BY <1>3, <2>1 DEF Nested
<1> QED
  BY <1>1, <1>2, <1>3

\* ... and so does a parenthesis with the expression in it,
LEMMA NestedParen ==
  ASSUME NEW f, NEW g, NEW n \in Nat, Nested(f, n), \A k \in 1 .. n : g[k] = f[k],
         n > 0 => f[n] # "(", g[n + 1] = "(", g[n + 2] = "expr"
  PROVE  Nested(g, n + 2)
<1> SUFFICES ASSUME NEW k \in 1 .. n + 2
             PROVE  /\ g[k] = "expr" => k > 1 /\ g[k - 1] = "("
                    /\ g[k] = "(" /\ k < n + 2 => g[k + 1] = "expr"
  BY DEF Nested
<1>1. CASE k = n + 2
  <2>1. k - 1 = n + 1 /\ k > 1
    BY <1>1
  <2> QED
    BY <1>1, <2>1
<1>2. CASE k = n + 1
  <2>1. k + 1 = n + 2
    BY <1>2
  <2> QED
    BY <1>2, <2>1
<1>3. CASE k = n /\ n > 0
  <2>1. k \in 1 .. n /\ (k > 1 => k - 1 \in 1 .. n)
    BY <1>3
  <2> QED
    BY <1>3, <2>1 DEF Nested
<1>4. CASE k < n
  <2>1. k \in 1 .. n /\ k + 1 \in 1 .. n /\ (k > 1 => k - 1 \in 1 .. n)
    BY <1>4
  <2> QED
    BY <1>4, <2>1 DEF Nested
<1> QED
  BY <1>1, <1>2, <1>3, <1>4

\* ... and a return.
LEMMA NestedPop ==
  ASSUME NEW f, NEW g, NEW n \in Nat, Nested(f, n + 1), \A k \in 1 .. n : g[k] = f[k]
  PROVE  /\ Nested(g, n)
         /\ n > 0 /\ g[n] = "(" => f[n + 1] = "expr"
         /\ f[n + 1] = "expr" => n > 0 /\ g[n] = "("
<1>1. Nested(g, n)
  <2> SUFFICES ASSUME NEW k \in 1 .. n
               PROVE  /\ g[k] = "expr" => k > 1 /\ g[k - 1] = "("
                      /\ g[k] = "(" /\ k < n => g[k + 1] = "expr"
    BY DEF Nested
  <2>1. k \in 1 .. n + 1 /\ (k > 1 => k - 1 \in 1 .. n) /\ (k < n => k + 1 \in 1 .. n) /\ k < n + 1
    OBVIOUS
  <2> QED
    BY <2>1 DEF Nested
<1>2. n > 0 /\ g[n] = "(" => f[n + 1] = "expr"
  <2>1. n > 0 => n \in 1 .. n /\ n \in 1 .. n + 1 /\ n < n + 1
    OBVIOUS
  <2> QED
    BY <2>1 DEF Nested
<1>3. f[n + 1] = "expr" => n > 0 /\ g[n] = "("
  <2>1. n + 1 \in 1 .. n + 1 /\ (n + 1) - 1 = n /\ (n + 1 > 1 => n > 0 /\ n \in 1 .. n)
    OBVIOUS
  <2> QED
    BY <2>1 DEF Nested
<1> QED
  BY <1>1, <1>2, <1>3

\* What a call and a return do to the pending ones.
LEMMA Pushed ==
  ASSUME Pending, NEW a \in Frames, calls' = <<a>> \o calls
  PROVE  /\ calls' \in Seq(Frames) /\ Len(calls) \in Nat /\ Len(calls') = Len(calls) + 1
         /\ calls' # <<>>
         /\ Bottom(calls')[Len(calls')] = a /\ Bottom(calls')[Len(calls) + 1] = a
         /\ \A k \in 1 .. Len(calls) : Bottom(calls')[k] = Bottom(calls)[k]
         /\ (a # "expr" /\ ~OnTop("(")) => Nested(Bottom(calls'), Len(calls'))
<1>1. /\ calls' \in Seq(Frames) /\ Len(calls) \in Nat /\ Len(calls') = Len(calls) + 1
      /\ Bottom(calls')[Len(calls) + 1] = a
      /\ \A k \in 1 .. Len(calls) : Bottom(calls')[k] = Bottom(calls)[k]
  <2> DEFINE d == calls'
  <2>1. calls \in Seq(Frames)
    BY DEF Pending
  <2>2. \A e : e = <<a>> \o calls =>
          /\ e \in Seq(Frames) /\ Len(calls) \in Nat /\ Len(e) = Len(calls) + 1
          /\ Bottom(e)[Len(calls) + 1] = a
          /\ \A k \in 1 .. Len(calls) : Bottom(e)[k] = Bottom(calls)[k]
    BY <2>1, CallPushed, Zenon
  <2>3. d = <<a>> \o calls
    OBVIOUS
  <2> HIDE DEF d
  <2>4. /\ d \in Seq(Frames) /\ Len(calls) \in Nat /\ Len(d) = Len(calls) + 1
        /\ Bottom(d)[Len(calls) + 1] = a
        /\ \A k \in 1 .. Len(calls) : Bottom(d)[k] = Bottom(calls)[k]
    BY <2>2, <2>3, Zenon
  <2> QED
    BY <2>4 DEF d
<1>2. calls' # <<>>
  BY <1>1, EmptySeq
<1>3. Len(calls) > 0 => calls # <<>>
  BY EmptySeq
<1>4. (a # "expr" /\ ~OnTop("(")) => Nested(Bottom(calls'), Len(calls'))
  BY <1>1, <1>3, NestedPush DEF Pending, OnTop
<1> QED
  BY <1>1, <1>2, <1>4

\* A parenthesis makes two calls: its own and that of the expression in it.
LEMMA PushedTwo ==
  ASSUME Pending, ~OnTop("("), calls' = <<"expr", "(">> \o calls
  PROVE  /\ calls' \in Seq(Frames) /\ Len(calls) \in Nat /\ Len(calls') = Len(calls) + 2
         /\ calls' # <<>>
         /\ Bottom(calls')[Len(calls')] = "expr" /\ Bottom(calls')[Len(calls) + 2] = "expr"
         /\ Bottom(calls')[Len(calls) + 1] = "("
         /\ \A k \in 1 .. Len(calls) : Bottom(calls')[k] = Bottom(calls)[k]
         /\ Nested(Bottom(calls'), Len(calls'))
<1> DEFINE d == <<"(">> \o calls
           e == calls'
<1>1. "(" \in Frames /\ "expr" \in Frames
  BY DEF Frames
<1>2. calls \in Seq(Frames) /\ Nested(Bottom(calls), Len(calls))
  BY DEF Pending
<1>3. e = <<"expr">> \o d
  <2>1. <<"expr">> \in Seq(Frames) /\ <<"(">> \in Seq(Frames)
    BY <1>1
  <2>2. (<<"expr">> \o <<"(">>) \o calls = <<"expr">> \o (<<"(">> \o calls)
    BY <1>2, <2>1, ConcatAssociative
  <2> QED
    BY <2>2, Two
<1>4. d = <<"(">> \o calls
  OBVIOUS
<1> HIDE DEF d, e
<1>5. /\ d \in Seq(Frames) /\ Len(calls) \in Nat /\ Len(d) = Len(calls) + 1
      /\ Bottom(d)[Len(calls) + 1] = "("
      /\ \A k \in 1 .. Len(calls) : Bottom(d)[k] = Bottom(calls)[k]
  <2>1. \A f : f = <<"(">> \o calls =>
          /\ f \in Seq(Frames) /\ Len(calls) \in Nat /\ Len(f) = Len(calls) + 1
          /\ Bottom(f)[Len(calls) + 1] = "("
          /\ \A k \in 1 .. Len(calls) : Bottom(f)[k] = Bottom(calls)[k]
    BY <1>1, <1>2, CallPushed, Zenon
  <2> QED
    BY <1>4, <2>1, Zenon
<1>6. /\ e \in Seq(Frames) /\ Len(e) = Len(d) + 1
      /\ Bottom(e)[Len(d) + 1] = "expr"
      /\ \A k \in 1 .. Len(d) : Bottom(e)[k] = Bottom(d)[k]
  <2>1. \A f : f = <<"expr">> \o d =>
          /\ f \in Seq(Frames) /\ Len(d) \in Nat /\ Len(f) = Len(d) + 1
          /\ Bottom(f)[Len(d) + 1] = "expr"
          /\ \A k \in 1 .. Len(d) : Bottom(f)[k] = Bottom(d)[k]
    BY <1>1, <1>5, CallPushed, Zenon
  <2> QED
    BY <1>3, <2>1, Zenon
<1>7. /\ Len(e) = Len(calls) + 2 /\ Bottom(e)[Len(calls) + 2] = "expr"
      /\ Bottom(e)[Len(calls) + 1] = "("
      /\ \A k \in 1 .. Len(calls) : Bottom(e)[k] = Bottom(calls)[k]
  BY <1>5, <1>6
<1>8. e # <<>> /\ (Len(calls) > 0 => calls # <<>>)
  BY <1>5, <1>7, EmptySeq
<1>9. Nested(Bottom(e), Len(calls) + 2)
  <2>1. Len(calls) > 0 => Bottom(calls)[Len(calls)] # "("
    BY <1>8 DEF OnTop
  <2> QED
    BY <1>2, <1>5, <1>7, <2>1, NestedParen
<1> QED
  BY <1>5, <1>6, <1>7, <1>8, <1>9 DEF e

\* A call returns to the one around it.
LEMMA Popped ==
  ASSUME Pending, NEW a, calls # <<>>, Head(calls) = a, calls' = Tail(calls)
  PROVE  /\ calls' \in Seq(Frames) /\ Len(calls') \in Nat /\ Len(calls) = Len(calls') + 1
         /\ Bottom(calls)[Len(calls)] = a /\ OnTop(a)
         /\ \A k \in 1 .. Len(calls') : Bottom(calls')[k] = Bottom(calls)[k]
         /\ Nested(Bottom(calls'), Len(calls'))
         /\ OnTop("(")' => a = "expr"
         /\ a = "expr" => OnTop("(")'
<1>1. /\ calls' \in Seq(Frames) /\ Len(calls') \in Nat /\ Len(calls) = Len(calls') + 1
      /\ Bottom(calls)[Len(calls)] = a
      /\ \A k \in 1 .. Len(calls') : Bottom(calls')[k] = Bottom(calls)[k]
  BY CallPopped DEF Pending
<1>2. /\ Nested(Bottom(calls'), Len(calls'))
      /\ Len(calls') > 0 /\ Bottom(calls')[Len(calls')] = "(" => a = "expr"
      /\ a = "expr" => Len(calls') > 0 /\ Bottom(calls')[Len(calls')] = "("
  <2>1. Nested(Bottom(calls), Len(calls') + 1) /\ Bottom(calls)[Len(calls') + 1] = a
    BY <1>1 DEF Pending
  <2> QED
    BY <1>1, <2>1, NestedPop
<1>3. calls' # <<>> <=> Len(calls') > 0
  <2>1. calls' = <<>> => Len(calls') = 0
    BY EmptySeq
  <2>2. Len(calls') = 0 => calls' = <<>>
    BY <1>1, EmptySeq
  <2> QED
    BY <1>1, <2>1, <2>2
<1> QED
  BY <1>1, <1>2, <1>3 DEF OnTop

\* Every step of the parser keeps the pending calls in order.
LEMMA PendingKept ==
  ASSUME Pending, ParseNext
  PROVE  Pending'
<1>1. ASSUME parse = "element", UNCHANGED calls, parse' \in {"true", "false"} PROVE Pending'
  BY <1>1 DEF Pending, OnTop
<1>2. ASSUME parse = "element", NEW a \in Frames \ {"(", "expr"}, calls' = <<a>> \o calls, parse' = "element"
      PROVE Pending'
  <2>1. ~OnTop("(")
    BY <1>2 DEF Pending
  <2>2. calls' \in Seq(Frames) /\ Nested(Bottom(calls'), Len(calls'))
        /\ Bottom(calls')[Len(calls')] = a
    BY <1>2, <2>1, Pushed
  <2> QED
    BY <1>2, <2>2 DEF Pending, OnTop
<1>3. CASE Nothing
  BY <1>1, <1>3 DEF Nothing, Word, Fail
<1>4. CASE Paren
  <2>1. parse = "element" /\ parse' = "element" /\ calls' = <<"expr", "(">> \o calls
    BY <1>4 DEF Paren, Word, Call
  <2>2. ~OnTop("(")
    BY <2>1 DEF Pending
  <2>3. calls' \in Seq(Frames) /\ Nested(Bottom(calls'), Len(calls'))
        /\ Bottom(calls')[Len(calls')] = "expr"
    BY <2>1, <2>2, PushedTwo
  <2> QED
    BY <2>1, <2>3 DEF Pending, OnTop
<1>5. CASE Constant
  BY <1>1, <1>5 DEF Constant, Word, Push
<1>6. CASE Affix
  BY <1>1, <1>6 DEF Affix, Word, Push
<1>7. CASE Negation
  BY <1>2, <1>7 DEF Negation, Word, Call, Frames
<1>8. CASE Operation
  BY <1>1, <1>2, <1>8 DEF Operation, Word, Call, Fail, Frames, Operators
<1>9. CASE Unexpected
  BY <1>1, <1>9 DEF Unexpected, Word, Fail
<1>10. CASE Brackets
  BY <1>1, <1>10 DEF Brackets
<1>11. CASE ReturnExpr
  <2>1. CASE parse = "true"
    <3>1. parse' = "element" /\ calls' = calls /\ calls # <<>> /\ Head(calls) = "expr"
      BY <1>11, <2>1 DEF ReturnExpr, Return
    <3>2. Bottom(calls)[Len(calls)] = "expr"
      BY <3>1, CallPopped DEF Pending
    <3> QED
      BY <3>1, <3>2 DEF Pending, OnTop
  <2>2. CASE parse # "true"
    <3>1. /\ parse' = (IF current \in {")", End} THEN "true" ELSE "false") /\ current' = current
          /\ calls' = Tail(calls) /\ calls # <<>> /\ Head(calls) = "expr"
      BY <1>11, <2>2 DEF ReturnExpr, Return
    <3>2. calls' \in Seq(Frames) /\ Nested(Bottom(calls'), Len(calls'))
      BY <3>1, Popped
    <3> QED
      BY <3>1, <3>2 DEF Pending
  <2> QED
    BY <2>1, <2>2
<1>12. CASE ReturnParen
  <2>1. calls' = Tail(calls) /\ calls # <<>> /\ Head(calls) = "(" /\ parse' \in {"true", "false"}
    BY <1>12 DEF ReturnParen, Return
  <2>2. calls' \in Seq(Frames) /\ Nested(Bottom(calls'), Len(calls')) /\ ~OnTop("(")'
    BY <2>1, Popped
  <2> QED
    BY <2>1, <2>2 DEF Pending
<1>13. CASE ReturnOperator
  <2>1. PICK a \in Operators \cup {"!"} :
          /\ calls' = Tail(calls) /\ calls # <<>> /\ Head(calls) = a
          /\ parse' \in {"true", "false", "wild"}
    BY <1>13 DEF ReturnOperator, Return, Apply, Pop, Operators
  <2>2. a # "expr"
    BY DEF Operators
  <2>3. calls' \in Seq(Frames) /\ Nested(Bottom(calls'), Len(calls')) /\ ~OnTop("(")'
    BY <2>1, <2>2, Popped
  <2> QED
    BY <2>1, <2>3 DEF Pending
<1>14. CASE Compiled
  BY <1>14 DEF Compiled, Pending
<1> QED
  BY <1>3, <1>4, <1>5, <1>6, <1>7, <1>8, <1>9, <1>10, <1>11, <1>12, <1>13, <1>14 DEF ParseNext

\* A list of the elements of a finite set is made of them.
LEMMA ListOfSet ==
  ASSUME NEW S, IsFiniteSet(S)
  PROVE  SetToSeq(S) \in Seq(S)
<1>1. Cardinality(S) \in Nat /\ ExistsBijection(1 .. Cardinality(S), S)
  BY FS_CardinalityType
<1>2. \E f \in [1 .. Cardinality(S) -> S] : IsInjective(f)
  BY <1>1 DEF ExistsBijection, Bijection, Injection
<1>3. SetToSeq(S) \in [1 .. Cardinality(S) -> S]
  BY <1>2 DEF SetToSeq
<1> QED
  BY <1>1, <1>3

\* A sequence is one of its own elements.
LEMMA SeqOfWords ==
  ASSUME NEW S, NEW u \in Seq(S)
  PROVE  u \in Seq(ToSet(u))
<1>1. u \in [1 .. Len(u) -> S] /\ Len(u) \in Nat
  BY LenProperties
<1>2. u \in [1 .. Len(u) -> ToSet(u)]
  BY <1>1 DEF ToSet
<1> QED
  BY <1>1, <1>2

\* Texts put together are texts.
LEMMA JoinTexts ==
  ASSUME NEW s \in WordLists, NEW t \in WordLists
  PROVE  s \o t \in WordLists
BY ConcatProperties DEF WordLists

\* A word is a text.
LEMMA OneWord ==
  ASSUME NEW w \in Vocabulary
  PROVE  <<w>> \in WordLists
<1> DEFINE V == Vocabulary
<1>1. w \in V
  OBVIOUS
<1> HIDE DEF V
<1>2. <<w>> \in Seq(V)
  BY <1>1
<1> QED
  BY <1>2 DEF V, WordLists

\* What the parser looks for are words.
LEMMA Worded ==
  /\ Reserved \subseteq Vocabulary /\ Operators \subseteq Vocabulary
  /\ DOMAIN Matches \subseteq Vocabulary /\ GroupNames \subseteq Vocabulary
  /\ \A w \in {"(", ")", "[", "]", "!", "true", "false"} : w \in Vocabulary
BY DEF Vocabulary, Reserved

\* The words of whatever a command may carry are in the vocabulary.
LEMMA WhereTexts ==
  ASSUME NEW t \in Wheres
  PROVE  t.text \in WordLists
<1> DEFINE Good(S) == \A e \in S : e.text \in WordLists
<1>1. \A w \in Vocabulary : <<w>> \in WordLists
  BY OneWord
<1>2. \A s \in WordLists, u \in WordLists : s \o u \in WordLists
  BY JoinTexts
<1>3. Good(Atoms)
  <2>1. <<"true">> \in WordLists /\ <<"false">> \in WordLists
        /\ \A w \in DOMAIN Matches : <<w>> \in WordLists
    BY <1>1, Worded
  <2> QED
    BY <2>1 DEF Atoms, Written
<1>4. Good(GroupLists)
  <2>1. ASSUME NEW names \in SUBSET GroupNames PROVE <<"[">> \o SetToSeq(names) \o <<"]">> \in WordLists
    <3>1. IsFiniteSet(names) /\ names \subseteq Vocabulary
      BY FilterAssumption, FS_Subset, Worded
    <3>2. SetToSeq(names) \in WordLists
      BY <3>1, ListOfSet, SeqMonotonic DEF WordLists
    <3>3. <<"[">> \in WordLists /\ <<"]">> \in WordLists
      BY <1>1, Worded
    <3> QED
      BY <1>2, <3>2, <3>3
  <2> QED
    <3> SUFFICES ASSUME NEW x \in GroupLists PROVE x.text \in WordLists
      OBVIOUS
    <3>1. \E names \in SUBSET GroupNames : x.text = <<"[">> \o SetToSeq(names) \o <<"]">>
      BY DEF GroupLists, Written
    <3> QED
      BY <2>1, <3>1
<1>5. ASSUME NEW S, Good(S) PROVE Good(Negated(S))
  <2>1. \A e \in S : <<"!">> \o e.text \in WordLists
    BY <1>1, <1>2, <1>5, Worded
  <2> QED
    <3> SUFFICES ASSUME NEW x \in Negated(S) PROVE x.text \in WordLists
      OBVIOUS
    <3>1. \E e \in S : x.text = <<"!">> \o e.text
      BY DEF Negated, Written
    <3> QED
      BY <2>1, <3>1
<1>6. ASSUME NEW S, Good(S) PROVE Good(Chain2(S))
  <2>1. ASSUME NEW e \in S \X S, NEW op \in Operators
        PROVE  <<"(">> \o e[1].text \o <<op>> \o e[2].text \o <<")">> \in WordLists
    <3>1. e[1] \in S /\ e[2] \in S /\ op \in Vocabulary
      BY Worded
    <3>2. e[1].text \in WordLists /\ e[2].text \in WordLists
      BY <1>6, <3>1
    <3>3. <<"(">> \in WordLists /\ <<op>> \in WordLists /\ <<")">> \in WordLists
      BY <1>1, <3>1, Worded
    <3>4. <<"(">> \o e[1].text \o <<op>> \o e[2].text \in WordLists
      BY <1>2, <3>2, <3>3
    <3> QED
      BY <1>2, <3>3, <3>4
  <2> QED
    <3> SUFFICES ASSUME NEW x \in Chain2(S) PROVE x.text \in WordLists
      OBVIOUS
    <3>1. \E e \in S \X S, op \in Operators :
            x.text = <<"(">> \o e[1].text \o <<op>> \o e[2].text \o <<")">>
      <4> DEFINE w(e, op) == <<"(">> \o e[1].text \o <<op>> \o e[2].text \o <<")">>
                 m(e, op) == Combined(op, e[1].means, e[2].means)
      <4>1. x \in {Written(w(e, op), m(e, op)) : e \in S \X S, op \in Operators}
        BY DEF Chain2
      <4> HIDE DEF w, m
      <4>2. \E e \in S \X S, op \in Operators : x = Written(w(e, op), m(e, op))
        BY <4>1
      <4>3. \A u, k : Written(u, k).text = u
        BY DEF Written
      <4>4. \E e \in S \X S, op \in Operators : x.text = w(e, op)
        BY <4>2, <4>3
      <4> QED
        BY <4>4 DEF w
    <3> QED
      BY <2>1, <3>1
<1>7. ASSUME NEW S, Good(S) PROVE Good(Chain3(S))
  <2>1. ASSUME NEW e \in S \X S \X S, NEW o \in Operators \X Operators
        PROVE  <<"(">> \o e[1].text \o <<o[1]>> \o e[2].text \o <<o[2]>> \o e[3].text \o <<")">>
                 \in WordLists
    <3>1. e[1] \in S /\ e[2] \in S /\ e[3] \in S /\ o[1] \in Vocabulary /\ o[2] \in Vocabulary
      BY Worded
    <3>2. e[1].text \in WordLists /\ e[2].text \in WordLists /\ e[3].text \in WordLists
      BY <1>7, <3>1
    <3>3. <<"(">> \in WordLists /\ <<o[1]>> \in WordLists /\ <<o[2]>> \in WordLists /\ <<")">> \in WordLists
      BY <1>1, <3>1, Worded
    <3>4. <<"(">> \o e[1].text \o <<o[1]>> \o e[2].text \in WordLists
      BY <1>2, <3>2, <3>3
    <3>5. <<"(">> \o e[1].text \o <<o[1]>> \o e[2].text \o <<o[2]>> \o e[3].text \in WordLists
      BY <1>2, <3>2, <3>3, <3>4
    <3> QED
      BY <1>2, <3>3, <3>5
  <2> QED
    <3> SUFFICES ASSUME NEW x \in Chain3(S) PROVE x.text \in WordLists
      OBVIOUS
    <3>1. \E e \in S \X S \X S, o \in Operators \X Operators :
            x.text = <<"(">> \o e[1].text \o <<o[1]>> \o e[2].text \o <<o[2]>> \o e[3].text \o <<")">>
      <4> DEFINE w(e, o) ==
                   <<"(">> \o e[1].text \o <<o[1]>> \o e[2].text \o <<o[2]>> \o e[3].text \o <<")">>
                 m(e, o) == Combined(o[2], Combined(o[1], e[1].means, e[2].means), e[3].means)
      <4>1. Chain3(S) = {Written(w(e, o), m(e, o)) : e \in S \X S \X S, o \in Operators \X Operators}
        BY DEF Chain3
      <4> HIDE DEF w, m
      <4>2. \E e \in S \X S \X S, o \in Operators \X Operators : x = Written(w(e, o), m(e, o))
        BY <4>1
      <4>3. \A u, k : Written(u, k).text = u
        BY DEF Written
      <4>4. \E e \in S \X S \X S, o \in Operators \X Operators : x.text = w(e, o)
        BY <4>2, <4>3
      <4> QED
        BY <4>4 DEF w
    <3> QED
      BY <2>1, <3>1
<1>8. \A S, T : Good(S) /\ Good(T) => Good(S \cup T)
  OBVIOUS
<1> HIDE DEF Good
<1>9. Good(Sentences)
  <2>1. Good(Simple) /\ Good(Negated(Atoms)) /\ Good(Negated(Simple))
    BY <1>3, <1>4, <1>5, <1>8 DEF Simple
  <2>2. Good(Negated(Chain2(Atoms))) /\ Good(Chain3(Atoms))
    BY <1>3, <1>5, <1>6, <1>7
  <2>3. Good(Simple \cup Negated(Atoms)) /\ Good(Atoms \cup Negated(Chain2(Atoms)))
    BY <1>3, <1>8, <2>1, <2>2
  <2>4. /\ Good(Chain2(Simple \cup Negated(Atoms)))
        /\ Good(Chain2(Atoms \cup Negated(Chain2(Atoms))))
    BY <1>6, <2>3
  <2>5. Good(Simple \cup Negated(Simple) \cup Chain2(Simple \cup Negated(Atoms)))
    BY <1>8, <2>1, <2>4
  <2>6. Good(Simple \cup Negated(Simple) \cup Chain2(Simple \cup Negated(Atoms)) \cup Chain3(Atoms))
    BY <1>8, <2>2, <2>5
  <2>7. Good(Simple \cup Negated(Simple) \cup Chain2(Simple \cup Negated(Atoms)) \cup Chain3(Atoms)
               \cup Negated(Chain2(Atoms)))
    BY <1>8, <2>2, <2>6
  <2> QED
    BY <1>8, <2>4, <2>7 DEF Sentences
<1>10. Good({Written(u, NoExpr) : u \in Texts \ {s.text : s \in Sentences}})
  <2>1. \A u \in Texts : u \in Seq(ToSet(u)) /\ ToSet(u) \subseteq Vocabulary
    BY FilterAssumption, SeqOfWords DEF Vocabulary
  <2>2. \A u \in Texts : u \in WordLists
    BY <2>1, SeqMonotonic DEF WordLists
  <2> QED
    BY <2>2 DEF Good, Written
<1>11. Good(Wheres)
  BY <1>8, <1>9, <1>10 DEF Wheres
<1> QED
  BY <1>11 DEF Good

-----------------------------------------------------------------------------
\* What the parser keeps whatever it reads.
Parsing == Reading /\ Pending /\ Trees

\* A step that reads no word.
LEMMA NothingRead ==
  ASSUME Reading, UNCHANGED <<text, words>>
  PROVE  Reading' /\ Read' = Read
BY DEF Reading, Read

\* A step that reads one.
LEMMA OneRead ==
  ASSUME Reading, NEW w, Word(w)
  PROVE  /\ Reading' /\ text' = text /\ current' = w /\ Read \in Nat
         /\ \/ w = End /\ Read' = Read
            \/ Read' = Read + 1 /\ Read' \in DOMAIN text /\ text[Read'] = w
<1>1. text' = text /\ words' = Rest /\ Next1 = w /\ current' = w
  BY DEF Word
<1>2. Read \in Nat
  <2>1. text \in WordLists /\ words \in WordLists /\ Len(words) <= Len(text)
    BY DEF Reading
  <2>2. Len(text) \in Nat /\ Len(words) \in Nat
    BY <2>1, LenProperties DEF WordLists
  <2> QED
    BY <2>1, <2>2 DEF Read
<1> QED
  BY <1>1, <1>2, WordRead

\* Every step of the parser reads the text from its start, and skips nothing.
LEMMA ReadingKept ==
  ASSUME Reading, ParseNext
  PROVE  Reading' /\ text' = text
<1>1. \A w : Word(w) => Reading' /\ text' = text
  BY OneRead
<1>2. UNCHANGED <<text, words>> => Reading' /\ text' = text
  BY NothingRead
<1>3. Nothing \/ Paren \/ Constant \/ Affix \/ Negation \/ Operation \/ Unexpected
        => \E w : Word(w)
  BY DEF Nothing, Paren, Constant, Affix, Negation, Operation, Unexpected
<1>4. ReturnExpr \/ ReturnParen \/ ReturnOperator \/ Compiled => UNCHANGED <<text, words>>
  BY DEF ReturnExpr, ReturnParen, ReturnOperator, Return, Compiled
<1>5. Brackets => Reading' /\ text' = text
  BY BracketsRead
<1> QED
  BY <1>1, <1>2, <1>3, <1>4, <1>5 DEF ParseNext

\* The three together, step by step.
LEMMA ParsingKept ==
  ASSUME Parsing, ParseNext
  PROVE  Parsing'
BY ReadingKept, PendingKept, TreesKept DEF Parsing

\* A parser that is not there, or has just been made.
Fresh ==
  /\ text \in WordLists /\ words = text /\ calls = <<>> /\ stack = <<>> /\ expr = NoExpr
  /\ parse \in {"idle", "element"}

\* A new parser has read nothing and has no call pending.
LEMMA FreshParses == Fresh => Parsing /\ Read = 0
<1> SUFFICES ASSUME Fresh PROVE Parsing /\ Read = 0
  OBVIOUS
<1>1. Reading
  BY LenProperties DEF Fresh, Reading, WordLists
<1>2. calls \in Seq(Frames) /\ Len(calls) = 0
  BY EmptySeq DEF Fresh
<1>3. Pending
  BY <1>2 DEF Fresh, Pending, Nested, OnTop
<1>4. Trees
  BY EmptySeq DEF Fresh, Trees
<1>5. Read = 0
  BY LenProperties DEF Fresh, Read, WordLists
<1> QED
  BY <1>1, <1>3, <1>4, <1>5 DEF Parsing

\* The parentheses that the pending calls stand for, and those of the words
\* that were read.
Opened == Tally(Bottom(calls), Len(calls), "(")
Here   == Depth(text, Read)

\* Where no group is called "(" or ")", the two go together.
Plain == GroupNames \cap {"(", ")"} = {}

Balanced ==
  /\ parse = "element" => Here = Opened
  /\ parse = "true" /\ ~OnTop("(") => Here = Opened
  /\ parse = "true" /\ OnTop("(") /\ current = ")" => Here = Opened - 1
  /\ parse = "false" /\ current = ")" => Here = Opened - 1
  /\ parse = "compiled" /\ expr # NoExpr => Here = 0

\* The measures are numbers.
LEMMA Measures ==
  ASSUME Reading, Pending
  PROVE  Read \in Nat /\ Read <= Len(text) /\ Len(text) \in Nat /\ Here \in Int /\ Opened \in Nat
<1>1. text \in WordLists /\ words \in WordLists /\ Len(words) <= Len(text)
  BY DEF Reading
<1>2. Len(text) \in Nat /\ Len(words) \in Nat
  BY <1>1, LenProperties DEF WordLists
<1>3. Read \in Nat /\ Read <= Len(text)
  BY <1>1, <1>2 DEF Read
<1>4. Len(calls) \in Nat
  BY LenProperties DEF Pending
<1> QED
  BY <1>2, <1>3, <1>4, Depths, CountIsNat DEF Here, Opened

\* A call opens a parenthesis when it waits for the ")" of one.
LEMMA CallOpens ==
  ASSUME Pending, NEW a \in Frames \ {"("}, calls' = <<a>> \o calls
  PROVE  Opened' = Opened
<1> DEFINE f == Bottom(calls)
           g == Bottom(calls')
           n == Len(calls)
<1>1. n \in Nat /\ Len(calls') = n + 1 /\ g[n + 1] # "(" /\ \A k \in 1 .. n : f[k] = g[k]
  BY Pushed
<1> HIDE DEF f, g, n
<1>2. Tally(g, n + 1, "(") = Tally(f, n, "(")
  <2> DEFINE m == n + 1
  <2>1. m \in Nat /\ n <= m /\ \A k \in n + 1 .. m : g[k] # "("
    BY <1>1
  <2> HIDE DEF m
  <2>2. n \in Nat /\ \A k \in 1 .. n : f[k] = g[k]
    BY <1>1
  <2>3. Tally(g, m, "(") = Tally(f, n, "(")
    BY <2>1, <2>2, CountSame, SMTT(30)
  <2> QED
    BY <2>3 DEF m
<1> QED
  BY <1>1, <1>2 DEF f, g, n, Opened

\* The call for a parenthesis opens one.
LEMMA ParenOpens ==
  ASSUME Pending, ~OnTop("("), calls' = <<"expr", "(">> \o calls
  PROVE  Opened' = Opened + 1
<1> DEFINE f == Bottom(calls)
           g == Bottom(calls')
           n == Len(calls)
<1>1. /\ n \in Nat /\ Len(calls') = n + 2 /\ g[n + 1] = "(" /\ g[n + 2] = "expr"
      /\ \A k \in 1 .. n : f[k] = g[k]
  BY PushedTwo
<1> HIDE DEF f, g, n
<1>2. Tally(g, n + 1, "(") = Tally(f, n, "(") + 1
  BY <1>1, CountMore
<1>3. Tally(g, n + 2, "(") = Tally(g, n + 1, "(")
  <2>1. n + 1 \in Nat /\ n + 2 \in Nat /\ n + 1 <= n + 2
        /\ \A k \in (n + 1) + 1 .. n + 2 : g[k] # "("
    BY <1>1
  <2> QED
    BY <2>1, CountSame
<1> QED
  BY <1>1, <1>2, <1>3 DEF f, g, n, Opened

\* A return closes it.
LEMMA ReturnCloses ==
  ASSUME Pending, NEW a, calls # <<>>, Head(calls) = a, calls' = Tail(calls)
  PROVE  /\ Opened' \in Nat
         /\ a # "(" => Opened' = Opened
         /\ a = "(" => Opened = Opened' + 1
<1> DEFINE f == Bottom(calls')
           g == Bottom(calls)
           n == Len(calls')
<1>1. n \in Nat /\ Len(calls) = n + 1 /\ g[n + 1] = a /\ \A k \in 1 .. n : f[k] = g[k]
  BY Popped
<1> HIDE DEF f, g, n
<1>2. ASSUME a # "(" PROVE Tally(g, n + 1, "(") = Tally(f, n, "(")
  <2>1. n + 1 \in Nat /\ n <= n + 1 /\ \A k \in n + 1 .. n + 1 : g[k] # "("
    BY <1>1, <1>2
  <2> QED
    BY <1>1, <2>1, CountSame
<1>3. ASSUME a = "(" PROVE Tally(g, n + 1, "(") = Tally(f, n, "(") + 1
  <2>1. g[n + 1] = "("
    BY <1>1, <1>3
  <2>2. n \in Nat /\ \A k \in 1 .. n : f[k] = g[k]
    BY <1>1
  <2> QED
    BY <2>1, <2>2, CountMore
<1>4. Tally(f, n, "(") \in Nat
  BY <1>1, CountIsNat
<1> QED
  BY <1>1, <1>2, <1>3, <1>4 DEF f, g, n, Opened

\* What reading does to the depth.
LEMMA WordDeepens ==
  ASSUME Reading, NEW w, Word(w)
  PROVE  /\ w = "(" => Here' = Here + 1
         /\ w = ")" => Here' = Here - 1
         /\ w \notin {"(", ")"} => Here' = Here
<1>1. /\ text' = text /\ Read \in Nat
      /\ \/ w = End /\ Read' = Read
         \/ Read' = Read + 1 /\ text[Read'] = w
  BY OneRead
<1>2. Here' = Depth(text, Read') /\ Here = Depth(text, Read)
  BY <1>1 DEF Here, Depth
<1>3. CASE w = End /\ Read' = Read
  BY <1>2, <1>3 DEF End
<1>4. CASE Read' = Read + 1 /\ text[Read'] = w
  <2> DEFINE i == Read
             j == Read'
  <2>1. i \in Nat /\ j \in Nat /\ j = i + 1 /\ i <= j /\ text[j] = w
        /\ \A k \in i + 1 .. j : k = j
    BY <1>1, <1>4
  <2> HIDE DEF i, j
  <2>2. /\ w = "(" => Depth(text, j) = Depth(text, i) + 1
        /\ w = ")" => Depth(text, j) = Depth(text, i) - 1
    BY <2>1, Depths
  <2>3. ASSUME w \notin {"(", ")"} PROVE Depth(text, j) = Depth(text, i)
    <3>1. \A k \in i + 1 .. j : text[k] \notin {"(", ")"}
      BY <2>1, <2>3
    <3> QED
      BY <2>1, <3>1, Depths
  <2> QED
    BY <1>2, <2>2, <2>3 DEF i, j
<1> QED
  BY <1>1, <1>3, <1>4

\* A list of groups holds no parenthesis, unless its end is one.
LEMMA GroupsLevel ==
  ASSUME Plain, Reading, Brackets
  PROVE  /\ Read \in Nat /\ Read' \in Nat /\ text' = text /\ text[Read + 1] = "["
         /\ \A i \in Read .. Read' - 1 : Depth(text, i) = Here
         /\ current' = ")" => Here' = Here - 1
         /\ current' \notin {"(", ")"} => Here' = Here
<1> DEFINE i == Read
           j == Read'
           x == current'
<1>1. /\ text' = text /\ i \in Nat /\ j \in Nat /\ i < j /\ text[i + 1] = "["
      /\ \/ x = End /\ \A m \in i + 2 .. j : text[m] \in GroupNames
         \/ x = text[j] /\ i + 1 < j /\ \A m \in i + 2 .. j - 1 : text[m] \in GroupNames
  BY BracketsRead
<1>2. Here' = Depth(text, j) /\ Here = Depth(text, i)
  BY <1>1 DEF Here, Depth
<1> HIDE DEF i, j, x
<1>3. \A m \in i + 1 .. j - 1 : text[m] \notin {"(", ")"}
  <2>1. \A m \in i + 1 .. j - 1 : m = i + 1 \/ (m \in i + 2 .. j - 1 /\ m \in i + 2 .. j)
    BY <1>1
  <2>2. \A m \in i + 1 .. j - 1 : m = i + 1 \/ text[m] \in GroupNames
    BY <1>1, <2>1
  <2> QED
    BY <1>1, <2>2 DEF Plain
<1>4. \A m \in i .. j - 1 : Depth(text, m) = Depth(text, i)
  <2> SUFFICES ASSUME NEW m \in i .. j - 1 PROVE Depth(text, m) = Depth(text, i)
    OBVIOUS
  <2>1. m \in Nat /\ i <= m /\ \A k \in i + 1 .. m : k \in i + 1 .. j - 1
    BY <1>1
  <2> QED
    BY <1>1, <1>3, <2>1, Depths
<1>5. j - 1 \in i .. j - 1 /\ j - 1 \in Nat /\ (j - 1) + 1 = j
  BY <1>1
<1>6. x = ")" => Depth(text, j) = Depth(text, i) - 1
  <2> SUFFICES ASSUME x = ")" PROVE Depth(text, j) = Depth(text, i) - 1
    OBVIOUS
  <2>1. text[(j - 1) + 1] = ")"
    BY <1>1, <1>5 DEF End
  <2>2. Depth(text, (j - 1) + 1) = Depth(text, j - 1) - 1
    BY <1>5, <2>1, Depths
  <2> QED
    BY <1>4, <1>5, <2>2
<1>7. x \notin {"(", ")"} => Depth(text, j) = Depth(text, i)
  <2> SUFFICES ASSUME x \notin {"(", ")"} PROVE Depth(text, j) = Depth(text, i)
    OBVIOUS
  <2>1. text[j] \notin {"(", ")"}
    <3>1. j = i + 1 \/ j \in i + 2 .. j
      BY <1>1
    <3> QED
      BY <1>1, <3>1 DEF Plain
  <2>2. \A k \in i + 1 .. j : k = j \/ k \in i + 1 .. j - 1
    BY <1>1
  <2>3. \A k \in i + 1 .. j : text[k] \notin {"(", ")"}
    BY <1>3, <2>1, <2>2
  <2>4. i <= j
    BY <1>1
  <2> QED
    BY <1>1, <2>3, <2>4, Depths
<1> QED
  BY <1>1, <1>2, <1>4, <1>6, <1>7 DEF i, j, x

\* Every step keeps the words and the calls together.
LEMMA BalancedKept ==
  ASSUME Plain, Parsing, Balanced, ParseNext
  PROVE  Balanced'
<1> USE DEF Parsing
<1>1. Here \in Int /\ Opened \in Nat
  BY Measures
<1>2. UNCHANGED calls => Opened' = Opened
  BY DEF Opened
<1>3. UNCHANGED <<text, words>> => Here' = Here
  BY DEF Here, Read
<1>4. parse = "element" => ~OnTop("(")
  BY DEF Pending
<1>5. CASE Nothing
  <2>1. PICK w \in {End, ")"} : Word(w) /\ Fail
    BY <1>5 DEF Nothing
  <2>2. parse = "element" /\ parse' = "false" /\ current' = w /\ calls' = calls
    BY <2>1 DEF Word, Fail
  <2>3. w = ")" => Here' = Here - 1
    BY <2>1, WordDeepens
  <2> QED
    BY <1>1, <1>2, <2>1, <2>2, <2>3 DEF Balanced, End
<1>6. CASE Paren
  <2>1. parse = "element" /\ parse' = "element" /\ calls' = <<"expr", "(">> \o calls
    BY <1>6 DEF Paren, Word, Call
  <2>2. Here' = Here + 1
    BY <1>6, WordDeepens DEF Paren
  <2>3. Opened' = Opened + 1
    BY <1>4, <2>1, ParenOpens
  <2> QED
    BY <1>1, <2>1, <2>2, <2>3 DEF Balanced
<1>7. ASSUME NEW w, w \notin {"(", ")"}, Word(w), UNCHANGED calls, parse' = "true" PROVE Balanced'
  <2>1. parse = "element" /\ Here' = Here /\ Opened' = Opened
    BY <1>2, <1>7, WordDeepens DEF Word
  <2>2. ~OnTop("(")'
    BY <1>4, <1>7, <2>1 DEF OnTop
  <2> QED
    BY <1>7, <2>1, <2>2 DEF Balanced
<1>8. CASE Constant
  BY <1>7, <1>8 DEF Constant, Push
<1>9. CASE Affix
  <2>1. \A w \in DOMAIN Matches : w \notin {"(", ")"}
    BY FilterAssumption DEF Reserved
  <2> QED
    BY <1>7, <1>9, <2>1 DEF Affix, Push
<1>10. ASSUME NEW w \in {"!"} \cup Operators, Word(w), Call(<<w>>) PROVE Balanced'
  <2>1. parse = "element" /\ parse' = "element" /\ calls' = <<w>> \o calls /\ w \in Frames \ {"("}
        /\ w \notin {"(", ")"}
    BY <1>10 DEF Word, Call, Frames, Operators
  <2>2. Here' = Here /\ Opened' = Opened
    BY <1>10, <2>1, WordDeepens, CallOpens
  <2> QED
    BY <2>1, <2>2 DEF Balanced
<1>11. CASE Negation
  BY <1>10, <1>11 DEF Negation
<1>12. ASSUME NEW w, w # ")", Word(w), Fail PROVE Balanced'
  BY <1>12 DEF Word, Fail, Balanced
<1>13. CASE Operation
  BY <1>10, <1>12, <1>13 DEF Operation, Operators
<1>14. CASE Unexpected
  <2>1. Next1 # ")"
    BY <1>14 DEF Unexpected, Readable, Reserved
  <2> QED
    BY <1>12, <1>14, <2>1 DEF Unexpected
<1>15. CASE Brackets
  <2>1. /\ parse = "element" /\ calls' = calls /\ parse' \in {"true", "false"}
        /\ parse' = "true" => current' = "]"
    BY <1>15 DEF Brackets
  <2>2. /\ current' = ")" => Here' = Here - 1
        /\ current' \notin {"(", ")"} => Here' = Here
    BY <1>15, GroupsLevel
  <2>3. ~OnTop("(")'
    BY <1>4, <2>1 DEF OnTop
  <2> QED
    BY <1>1, <1>2, <2>1, <2>2, <2>3 DEF Balanced
<1>16. CASE ReturnExpr
  <2>1. calls # <<>> /\ Head(calls) = "expr" /\ parse \in {"true", "false"} /\ current' = current
        /\ UNCHANGED <<text, words>>
    BY <1>16 DEF ReturnExpr, Return
  <2>2. CASE parse = "true"
    <3>1. parse' = "element" /\ calls' = calls
      BY <1>16, <2>2 DEF ReturnExpr
    <3>2. ~OnTop("(")
      BY <2>1, CallPopped DEF Pending, OnTop
    <3> QED
      BY <1>2, <1>3, <2>1, <2>2, <3>1, <3>2 DEF Balanced
  <2>3. CASE parse # "true"
    <3>1. parse = "false" /\ calls' = Tail(calls)
          /\ parse' = (IF current \in {")", End} THEN "true" ELSE "false")
      BY <1>16, <2>1, <2>3 DEF ReturnExpr
    <3>2. Opened' = Opened /\ OnTop("(")'
      BY <2>1, <3>1, Popped, ReturnCloses
    <3> QED
      BY <1>1, <1>3, <2>1, <3>1, <3>2 DEF Balanced
  <2> QED
    BY <2>2, <2>3
<1>17. CASE ReturnParen
  <2>1. /\ calls # <<>> /\ Head(calls) = "(" /\ parse \in {"true", "false"} /\ current' = current
        /\ UNCHANGED <<text, words>> /\ calls' = Tail(calls)
        /\ parse' = IF parse = "true" /\ current = ")" THEN "true" ELSE "false"
    BY <1>17 DEF ReturnParen, Return
  <2>2. OnTop("(") /\ ~OnTop("(")' /\ Opened = Opened' + 1 /\ Opened' \in Nat
    BY <2>1, Popped, ReturnCloses
  <2>3. parse = "false" => current \notin {")", End}
    BY <2>2 DEF Pending
  <2> QED
    <3>1. parse' = "true" => Here' = Opened'
      <4>1. parse' = "true" => Here = Opened - 1
        BY <2>1, <2>2 DEF Balanced
      <4>2. Here' = Here
        BY <1>3, <2>1
      <4> DEFINE o == Opened
                 p == Opened'
                 d == Here
                 e == Here'
      <4>3. o = p + 1 /\ p \in Nat /\ e = d /\ (parse' = "true" => d = o - 1)
        BY <2>2, <4>1, <4>2
      <4> HIDE DEF o, p, d, e
      <4>4. parse' = "true" => e = p
        BY <4>3
      <4> QED
        BY <4>4 DEF e, p
    <3>2. parse' = "false" => current' # ")"
      BY <2>1, <2>3
    <3>3. parse' \in {"true", "false"}
      BY <2>1
    <3> QED
      BY <2>2, <3>1, <3>2, <3>3 DEF Balanced
<1>18. CASE ReturnOperator
  <2>1. PICK a \in Operators \cup {"!"} :
          /\ calls' = Tail(calls) /\ calls # <<>> /\ Head(calls) = a /\ parse \in {"true", "false"}
          /\ IF parse = "true" THEN parse' \in {"true", "wild"} ELSE parse' = "false"
          /\ current' = current /\ UNCHANGED <<text, words>>
    BY <1>18 DEF ReturnOperator, Return, Apply, Pop, Operators
  <2>2. a \notin {"(", "expr"}
    BY DEF Operators
  <2>3. Opened' = Opened /\ OnTop(a) /\ ~OnTop("(")'
    BY <2>1, <2>2, Popped, ReturnCloses
  <2>4. ~OnTop("(")
    BY <2>2, <2>3 DEF OnTop
  <2> QED
    BY <1>1, <1>3, <2>1, <2>3, <2>4 DEF Balanced
<1>19. CASE Compiled
  <2>1. /\ calls = <<>> /\ parse \in {"true", "false"} /\ parse' = "compiled"
        /\ UNCHANGED <<text, words>>
        /\ parse = "false" => expr' = NoExpr
    BY <1>19 DEF Compiled
  <2>2. Opened = 0
    <3>1. Len(calls) = 0
      BY <2>1, EmptySeq DEF Pending
    <3> QED
      BY <3>1, CountStarts DEF Opened
  <2>3. parse = "true" => Here = 0
    <3>1. ~OnTop("(")
      BY <2>1 DEF OnTop
    <3> QED
      BY <2>2, <3>1 DEF Balanced
  <2>4. Here' = Here
    BY <1>3, <2>1
  <2> QED
    BY <2>1, <2>3, <2>4 DEF Balanced
<1> QED
  BY <1>5, <1>6, <1>8, <1>9, <1>11, <1>13, <1>14, <1>15, <1>16, <1>17, <1>18, <1>19 DEF ParseNext

-----------------------------------------------------------------------------
\* An expression in parentheses is in them to its end: its first "(" waits
\* for as long as words are read.
Enclosed ==
  /\ parse = "element" /\ calls = <<>> => Read = 0
  /\ calls # <<>> => Read >= 1
  /\ (Read >= 1 /\ text[1] = "(") =>
       /\ \A i \in 1 .. Read - 1 : Depth(text, i) > 0
       /\ parse = "element" => calls # <<>>
       /\ calls # <<>> => Bottom(calls)[1] = "("

\* No word is read.
LEMMA EnclosedRests ==
  ASSUME Parsing, Enclosed, UNCHANGED <<text, words>>,
         parse' = "element" => calls' # <<>>,
         calls' # <<>> => calls # <<>> /\ Bottom(calls')[1] = Bottom(calls)[1]
  PROVE  Enclosed'
<1>1. Read' = Read
  BY DEF Read
<1>2. \A i : Depth(text', i) = Depth(text, i)
  BY DEF Depth
<1> QED
  BY <1>1, <1>2 DEF Enclosed

\* A word is read, or a list of groups.
LEMMA EnclosedReads ==
  ASSUME Parsing, Enclosed, Balanced, parse = "element",
         text' = text, Read' \in Nat, Read' = Read \/ Read < Read',
         \A i \in Read .. Read' - 1 : Depth(text, i) = Here,
         Read = 0 /\ text[1] = "(" => Read' <= 1,
         parse' = "element" => calls' # <<>>,
         calls' # <<>> /\ calls # <<>> => Bottom(calls')[1] = Bottom(calls)[1],
         calls' # <<>> /\ calls = <<>> => Read < Read' /\ (text[1] = "(" => Bottom(calls')[1] = "(")
  PROVE  Enclosed'
<1> DEFINE r == Read
           q == Read'
           d == Here
<1>1. /\ r \in Nat /\ q \in Nat /\ (q = r \/ r < q) /\ d \in Int
      /\ \A i \in r .. q - 1 : Depth(text, i) = d
      /\ r = 0 /\ text[1] = "(" => q <= 1
  BY Measures DEF Parsing
<1>2. /\ calls = <<>> => r = 0
      /\ calls # <<>> => r >= 1
      /\ (r >= 1 /\ text[1] = "(") =>
           /\ \A i \in 1 .. r - 1 : Depth(text, i) > 0
           /\ calls # <<>> => Bottom(calls)[1] = "("
  BY DEF Enclosed
<1>3. calls' # <<>> /\ calls = <<>> => r < q
  OBVIOUS
<1>4. calls # <<>> /\ Bottom(calls)[1] = "(" => d > 0
  <2> SUFFICES ASSUME calls # <<>>, Bottom(calls)[1] = "(" PROVE d > 0
    OBVIOUS
  <2>1. Len(calls) \in Nat /\ Len(calls) >= 1
    BY EmptySeq DEF Parsing, Pending
  <2>2. 1 \in 1 .. Len(calls)
    BY <2>1
  <2>3. Opened >= 1
    BY <2>1, <2>2, CountIsNat DEF Opened
  <2>4. d = Opened
    BY DEF Balanced
  <2> QED
    BY <1>1, <2>3, <2>4
<1> HIDE DEF r, q, d
<1>5. parse' = "element" /\ calls' = <<>> => q = 0
  OBVIOUS
<1>6. calls' # <<>> => q >= 1
  BY <1>1, <1>2, <1>3
<1>7. ASSUME q >= 1, text[1] = "("
      PROVE  /\ \A i \in 1 .. q - 1 : Depth(text, i) > 0
             /\ parse' = "element" => calls' # <<>>
             /\ calls' # <<>> => Bottom(calls')[1] = "("
  <2>1. CASE r = 0
    <3>1. q <= 1 /\ calls = <<>>
      BY <1>1, <1>2, <1>7, <2>1
    <3>2. \A i \in 1 .. q - 1 : Depth(text, i) > 0
      BY <1>1, <3>1
    <3> QED
      BY <1>7, <3>1, <3>2
  <2>2. CASE r >= 1
    <3>1. /\ \A i \in 1 .. r - 1 : Depth(text, i) > 0
          /\ calls # <<>> /\ Bottom(calls)[1] = "("
      BY <1>1, <1>2, <1>7, <2>2
    <3>2. \A i \in 1 .. q - 1 : i \in 1 .. r - 1 \/ i \in r .. q - 1
      BY <1>1
    <3>3. \A i \in 1 .. q - 1 : Depth(text, i) > 0
      BY <1>1, <1>4, <3>1, <3>2
    <3> QED
      BY <3>1, <3>3
  <2> QED
    BY <1>1, <2>1, <2>2
<1> QED
  BY <1>5, <1>6, <1>7 DEF q, Enclosed

\* How far a word goes.
LEMMA WordWalks ==
  ASSUME Parsing, NEW w, Word(w)
  PROVE  /\ text' = text /\ Read' \in Nat /\ (Read' = Read \/ Read < Read')
         /\ \A i \in Read .. Read' - 1 : Depth(text, i) = Here
         /\ (Read = 0 => Read' <= 1)
         /\ (w # End => Read < Read')
         /\ (Read = 0 /\ w # End => text[1] = w)
<1> DEFINE r == Read
           q == Read'
<1>1. /\ text' = text /\ r \in Nat
      /\ \/ w = End /\ q = r
         \/ q = r + 1 /\ text[q] = w
  BY OneRead DEF Parsing
<1>2. Depth(text, r) = Here
  BY DEF Here
<1> HIDE DEF r, q
<1>3. \A i \in r .. q - 1 : i = r
  BY <1>1
<1> QED
  BY <1>1, <1>2, <1>3 DEF r, q

\* Every step keeps the first parenthesis open until the last word.
LEMMA EnclosedKept ==
  ASSUME Plain, Parsing, Balanced, Enclosed, ParseNext
  PROVE  Enclosed'
<1> USE DEF Parsing
<1>1. parse = "element" => ~OnTop("(")
  BY DEF Pending
<1>2. calls # <<>> => Len(calls) \in Nat /\ Len(calls) >= 1 /\ 1 \in 1 .. Len(calls)
  <2>1. calls # <<>> => Len(calls) \in Nat /\ Len(calls) >= 1
    BY EmptySeq DEF Pending
  <2> QED
    BY <2>1
\* A word, and nothing is called.
<1>3. ASSUME NEW w, Word(w), UNCHANGED calls, parse' # "element", w # "(" PROVE Enclosed'
  <2>1. parse = "element"
    BY <1>3 DEF Word
  <2>2. /\ text' = text /\ Read' \in Nat /\ (Read' = Read \/ Read < Read')
        /\ \A i \in Read .. Read' - 1 : Depth(text, i) = Here
        /\ (Read = 0 => Read' <= 1)
    BY <1>3, WordWalks
  <2>3. calls' # <<>> => calls # <<>> /\ Bottom(calls')[1] = Bottom(calls)[1]
    BY <1>3
  <2> QED
    BY <1>3, <2>1, <2>2, <2>3, EnclosedReads
\* A word that is a call.
<1>4. ASSUME NEW w \in {"!"} \cup Operators, Word(w), Call(<<w>>) PROVE Enclosed'
  <2>1. parse = "element" /\ calls' = <<w>> \o calls /\ w \in Frames /\ w # "(" /\ w # End
    BY <1>4 DEF Word, Call, Frames, Operators, End
  <2>2. /\ text' = text /\ Read' \in Nat /\ (Read' = Read \/ Read < Read')
        /\ \A i \in Read .. Read' - 1 : Depth(text, i) = Here
        /\ (Read = 0 => Read' <= 1)
        /\ (w # End => Read < Read')
        /\ (Read = 0 /\ w # End => text[1] = w)
    BY <1>4, WordWalks
  <2>3. calls' # <<>> /\ (calls # <<>> => Bottom(calls')[1] = Bottom(calls)[1])
    BY <1>2, <2>1, Pushed
  <2>4. calls = <<>> => Read < Read' /\ (text[1] = "(" => Bottom(calls')[1] = "(")
    BY <2>1, <2>2 DEF Enclosed
  <2> QED
    BY <2>1, <2>2, <2>3, <2>4, EnclosedReads
<1>5. CASE Paren
  <2>1. parse = "element" /\ calls' = <<"expr", "(">> \o calls /\ Word("(") /\ "(" # End
    BY <1>5 DEF Paren, Word, Call, End
  <2>2. /\ text' = text /\ Read' \in Nat /\ (Read' = Read \/ Read < Read')
        /\ \A i \in Read .. Read' - 1 : Depth(text, i) = Here
        /\ (Read = 0 => Read' <= 1) /\ Read < Read'
    BY <2>1, WordWalks
  <2>3. /\ calls' # <<>> /\ Len(calls) \in Nat /\ Bottom(calls')[Len(calls) + 1] = "("
        /\ \A k \in 1 .. Len(calls) : Bottom(calls')[k] = Bottom(calls)[k]
    BY <1>1, <2>1, PushedTwo
  <2>4. calls # <<>> => Bottom(calls')[1] = Bottom(calls)[1]
    BY <1>2, <2>3
  <2>5. calls = <<>> => Bottom(calls')[1] = "("
    <3>1. calls = <<>> => Len(calls) = 0
      BY EmptySeq DEF Pending
    <3> QED
      BY <2>3, <3>1
  <2> QED
    BY <2>1, <2>2, <2>3, <2>4, <2>5, EnclosedReads
<1>6. CASE Nothing
  BY <1>3, <1>6 DEF Nothing, Fail, End
<1>7. CASE Constant
  BY <1>3, <1>7 DEF Constant, Push
<1>8. CASE Affix
  <2>1. \A w \in DOMAIN Matches : w # "("
    BY FilterAssumption DEF Reserved
  <2> QED
    BY <1>3, <1>8, <2>1 DEF Affix, Push
<1>9. CASE Negation
  BY <1>4, <1>9 DEF Negation
<1>10. CASE Operation
  <2>1. \A w \in Operators : w # "("
    BY DEF Operators
  <2> QED
    BY <1>3, <1>4, <1>10, <2>1 DEF Operation, Fail
<1>11. CASE Unexpected
  <2>1. Next1 # "("
    BY <1>11 DEF Unexpected, Readable, Reserved
  <2> QED
    BY <1>3, <1>11, <2>1 DEF Unexpected, Fail
<1>12. CASE Brackets
  <2>1. parse = "element" /\ calls' = calls /\ parse' \in {"true", "false"}
    BY <1>12 DEF Brackets
  <2>2. /\ Read \in Nat /\ Read' \in Nat /\ text' = text /\ text[Read + 1] = "["
        /\ \A i \in Read .. Read' - 1 : Depth(text, i) = Here
    BY <1>12, GroupsLevel
  <2>3. Read < Read'
    BY <1>12, BracketsRead
  <2>4. Read = 0 => text[1] # "("
    BY <2>2
  <2>5. calls' # <<>> => calls # <<>> /\ Bottom(calls')[1] = Bottom(calls)[1]
    BY <2>1
  <2> QED
    BY <2>1, <2>2, <2>3, <2>4, <2>5, EnclosedReads
\* No word.
<1>13. ASSUME calls # <<>>, calls' = Tail(calls), UNCHANGED <<text, words>>, parse' # "element"
       PROVE  Enclosed'
  <2>1. /\ calls' \in Seq(Frames) /\ Len(calls') \in Nat
        /\ \A k \in 1 .. Len(calls') : Bottom(calls')[k] = Bottom(calls)[k]
    BY <1>13, Popped
  <2>2. calls' # <<>> => 1 \in 1 .. Len(calls')
    <3>1. calls' # <<>> => Len(calls') >= 1
      BY <2>1, EmptySeq
    <3> QED
      BY <2>1, <3>1
  <2> QED
    BY <1>13, <2>1, <2>2, EnclosedRests
<1>14. CASE ReturnExpr
  <2>1. calls # <<>> /\ UNCHANGED <<text, words>>
    BY <1>14 DEF ReturnExpr, Return
  <2>2. (parse' = "element" /\ calls' = calls) \/ (parse' # "element" /\ calls' = Tail(calls))
    BY <1>14 DEF ReturnExpr
  <2> QED
    BY <1>13, <2>1, <2>2, EnclosedRests
<1>15. CASE ReturnParen
  BY <1>13, <1>15 DEF ReturnParen, Return
<1>16. CASE ReturnOperator
  BY <1>13, <1>16 DEF ReturnOperator, Return, Apply, Pop, Operators
<1>17. CASE Compiled
  BY <1>17, EnclosedRests DEF Compiled
<1> QED
  BY <1>5, <1>6, <1>7, <1>8, <1>9, <1>10, <1>11, <1>12, <1>14, <1>15, <1>16, <1>17 DEF ParseNext

\* The words after which an operand comes.
Openers == {"(", "!"} \cup Operators

\* h[k] operands were on the stack when the k-th of the n pending calls b began,
\* and m are there now; the parser is in p, w is the current word, and it was
\* read from the text where read holds.  An operator was called with an operand
\* more than the call around it, and what returns true leaves one more.
Fits(h, b, n, m, p, w, read) ==
  /\ h \in [1 .. n -> Nat]
  /\ \A k \in 1 .. n : k > 1 => h[k - 1] <= h[k]
  /\ \A k \in 1 .. n : b[k] \in Operators => k > 1 /\ h[k - 1] < h[k]
  /\ p = "element" /\ n = 0 => m = 0
  /\ p = "element" /\ n > 0 => h[n] <= m
  /\ p = "element" /\ n > 0 /\ w \in Openers => read
  /\ p = "element" /\ n > 0 /\ w \notin Openers => b[n] = "expr" /\ h[n] < m
  /\ p = "true" => w \notin Openers
  /\ p = "true" /\ n > 0 /\ ~(b[n] = "(" /\ w = End) => h[n] < m
  /\ p = "false" /\ n > 0 /\ w = ")" => b[n] = "expr" /\ h[n] < m

\* A call.
LEMMA FitsCall ==
  ASSUME NEW h, NEW b, NEW n \in Nat, NEW m \in Nat, NEW w, NEW read,
         Fits(h, b, n, m, "element", w, read),
         NEW g, NEW a, \A k \in 1 .. n : g[k] = b[k], g[n + 1] = a, a \in Openers,
         a \in Operators => m > 0 /\ w \notin Openers
  PROVE  \E i : Fits(i, g, n + 1, m, "element", a, TRUE)
<1> DEFINE i == [k \in 1 .. n + 1 |-> IF k <= n THEN h[k] ELSE m]
<1>1. /\ h \in [1 .. n -> Nat]
      /\ \A k \in 1 .. n : k > 1 => h[k - 1] <= h[k]
      /\ \A k \in 1 .. n : b[k] \in Operators => k > 1 /\ h[k - 1] < h[k]
      /\ n = 0 => m = 0
      /\ n > 0 => h[n] <= m
      /\ n > 0 /\ w \notin Openers => h[n] < m
  BY DEF Fits
<1>2. /\ i \in [1 .. n + 1 -> Nat] /\ i[n + 1] = m
      /\ \A k \in 1 .. n : i[k] = h[k]
  BY <1>1
<1> HIDE DEF i
<1>3. \A k \in 1 .. n + 1 : k = n + 1 \/ (k \in 1 .. n /\ (k > 1 => k - 1 \in 1 .. n))
  OBVIOUS
<1>4. n > 0 => n \in 1 .. n /\ (n + 1) - 1 = n
  OBVIOUS
<1>5. \A k \in 1 .. n + 1 : k > 1 => i[k - 1] <= i[k]
  <2> SUFFICES ASSUME NEW k \in 1 .. n + 1, k > 1 PROVE i[k - 1] <= i[k]
    OBVIOUS
  <2>1. CASE k = n + 1
    BY <1>1, <1>2, <1>4, <2>1
  <2>2. CASE k # n + 1
    BY <1>1, <1>2, <1>3, <2>2
  <2> QED
    BY <2>1, <2>2
<1>6. \A k \in 1 .. n + 1 : g[k] \in Operators => k > 1 /\ i[k - 1] < i[k]
  <2> SUFFICES ASSUME NEW k \in 1 .. n + 1, g[k] \in Operators PROVE k > 1 /\ i[k - 1] < i[k]
    OBVIOUS
  <2>1. CASE k = n + 1
    BY <1>1, <1>2, <1>4, <2>1
  <2>2. CASE k # n + 1
    BY <1>1, <1>2, <1>3, <2>2
  <2> QED
    BY <2>1, <2>2
<1>7. n + 1 # 0 /\ n + 1 > 0 /\ i[n + 1] <= m
  BY <1>2
<1>8. Fits(i, g, n + 1, m, "element", a, TRUE)
  BY <1>2, <1>5, <1>6, <1>7 DEF Fits
<1> QED
  BY <1>8

\* What is called before a parenthesis is read.
LEMMA FitsParen ==
  ASSUME NEW h, NEW b, NEW n \in Nat, NEW m \in Nat, NEW w, NEW read,
         Fits(h, b, n, m, "element", w, read),
         NEW g, \A k \in 1 .. n : g[k] = b[k], g[n + 1] \in {"("}, g[n + 2] \in {"expr"},
         NEW r, r = TRUE
  PROVE  \E i : Fits(i, g, n + 2, m, "element", "(", r)
<1> DEFINE i == [k \in 1 .. n + 2 |-> IF k <= n THEN h[k] ELSE m]
<1>1. /\ h \in [1 .. n -> Nat]
      /\ \A k \in 1 .. n : k > 1 => h[k - 1] <= h[k]
      /\ \A k \in 1 .. n : b[k] \in Operators => k > 1 /\ h[k - 1] < h[k]
      /\ n > 0 => h[n] <= m
  BY DEF Fits
<1>2. /\ i \in [1 .. n + 2 -> Nat] /\ i[n + 1] = m /\ i[n + 2] = m
      /\ \A k \in 1 .. n : i[k] = h[k]
  BY <1>1
<1> HIDE DEF i
<1>3. \A k \in 1 .. n + 2 : k = n + 2 \/ k = n + 1 \/ (k \in 1 .. n /\ (k > 1 => k - 1 \in 1 .. n))
  OBVIOUS
<1>4. (n > 0 => n \in 1 .. n) /\ (n + 1) - 1 = n /\ (n + 2) - 1 = n + 1
  OBVIOUS
<1>5. \A k \in 1 .. n + 2 : k > 1 => i[k - 1] <= i[k]
  <2> SUFFICES ASSUME NEW k \in 1 .. n + 2, k > 1 PROVE i[k - 1] <= i[k]
    OBVIOUS
  <2>1. CASE k = n + 2
    BY <1>2, <1>4, <2>1
  <2>2. CASE k = n + 1
    BY <1>1, <1>2, <1>4, <2>2
  <2>3. CASE k # n + 2 /\ k # n + 1
    BY <1>1, <1>2, <1>3, <2>3
  <2> QED
    BY <2>1, <2>2, <2>3
<1>6. \A k \in 1 .. n + 2 : g[k] \in Operators => k > 1 /\ i[k - 1] < i[k]
  <2> SUFFICES ASSUME NEW k \in 1 .. n + 2, g[k] \in Operators PROVE k > 1 /\ i[k - 1] < i[k]
    OBVIOUS
  <2>1. k # n + 2 /\ k # n + 1
    BY DEF Operators
  <2> QED
    BY <1>1, <1>2, <1>3, <2>1
<1>7. n + 2 # 0 /\ n + 2 > 0 /\ i[n + 2] <= m /\ "(" \in Openers
  BY <1>2 DEF Openers
<1>8. Fits(i, g, n + 2, m, "element", "(", r)
  BY <1>2, <1>5, <1>6, <1>7 DEF Fits
<1> QED
  BY <1>8

\* An element that leaves its operand on the stack, and one that fails.
LEMMA FitsPush ==
  ASSUME NEW h, NEW b, NEW n \in Nat, NEW m \in Nat, NEW w, NEW read,
         Fits(h, b, n, m, "element", w, read), NEW v, v \notin Openers, NEW r
  PROVE  Fits(h, b, n, m + 1, "true", v, r)
<1>1. n > 0 => h[n] < m + 1
  <2> SUFFICES ASSUME n > 0 PROVE h[n] < m + 1
    OBVIOUS
  <2>1. h \in [1 .. n -> Nat] /\ h[n] <= m /\ n \in 1 .. n
    BY DEF Fits
  <2> QED
    BY <2>1
<1> QED
  BY <1>1 DEF Fits

\* A word that nothing accepts makes parse_element return false.
LEMMA FitsFail ==
  ASSUME NEW h, NEW b, NEW n \in Nat, NEW m \in Nat, NEW w, NEW read,
         Fits(h, b, n, m, "element", w, read), NEW v, NEW r,
         v = ")" /\ n > 0 => w \notin Openers
  PROVE  Fits(h, b, n, m, "false", v, r)
BY DEF Fits

\* An expression that goes on.
LEMMA FitsMore ==
  ASSUME NEW h, NEW b, NEW n \in Nat, NEW m \in Nat, NEW w, NEW read, n > 0,
         Fits(h, b, n, m, "true", w, read), b[n] = "expr", NEW r
  PROVE  Fits(h, b, n, m, "element", w, r)
<1>1. h[n] < m /\ h \in [1 .. n -> Nat] /\ n \in 1 .. n
  BY DEF Fits
<1>2. h[n] <= m /\ n # 0
  BY <1>1
<1> QED
  BY <1>1, <1>2 DEF Fits

\* What a return relies on.
LEMMA FitsReturn ==
  ASSUME NEW h, NEW b, NEW n \in Nat, NEW m \in Nat, NEW p, NEW w, NEW read,
         Fits(h, b, n + 1, m, p, w, read),
         NEW g, \A k \in 1 .. n : g[k] = b[k]
  PROVE  LET i == [k \in 1 .. n |-> h[k]]
         IN  /\ i \in [1 .. n -> Nat]
             /\ \A k \in 1 .. n : k > 1 => i[k - 1] <= i[k]
             /\ \A k \in 1 .. n : g[k] \in Operators => k > 1 /\ i[k - 1] < i[k]
             /\ h[n + 1] \in Nat
             /\ n > 0 => i[n] \in Nat /\ i[n] <= h[n + 1]
             /\ b[n + 1] \in Operators => n > 0 /\ i[n] < h[n + 1]
             /\ p = "true" => w \notin Openers
             /\ p = "true" /\ ~(b[n + 1] = "(" /\ w = End) => h[n + 1] < m
             /\ p = "false" /\ w = ")" => b[n + 1] = "expr" /\ h[n + 1] < m
<1> DEFINE i == [k \in 1 .. n |-> h[k]]
<1>1. /\ h \in [1 .. n + 1 -> Nat]
      /\ \A k \in 1 .. n + 1 : k > 1 => h[k - 1] <= h[k]
      /\ \A k \in 1 .. n + 1 : b[k] \in Operators => k > 1 /\ h[k - 1] < h[k]
      /\ p = "true" => w \notin Openers
      /\ p = "true" /\ ~(b[n + 1] = "(" /\ w = End) => h[n + 1] < m
      /\ p = "false" /\ w = ")" => b[n + 1] = "expr" /\ h[n + 1] < m
  <2>1. n + 1 > 0
    OBVIOUS
  <2> QED
    BY <2>1 DEF Fits
<1>2. /\ \A k \in 1 .. n : k \in 1 .. n + 1 /\ (k > 1 => k - 1 \in 1 .. n)
      /\ n + 1 \in 1 .. n + 1 /\ (n + 1) - 1 = n /\ (n > 0 => n \in 1 .. n /\ n + 1 > 1)
      /\ (n + 1 > 1 => n > 0)
  OBVIOUS
<1>3. i \in [1 .. n -> Nat] /\ \A k \in 1 .. n : i[k] = h[k]
  BY <1>1, <1>2
<1> HIDE DEF i
<1>4. \A k \in 1 .. n : k > 1 => i[k - 1] <= i[k]
  BY <1>1, <1>2, <1>3
<1>5. \A k \in 1 .. n : g[k] \in Operators => k > 1 /\ i[k - 1] < i[k]
  BY <1>1, <1>2, <1>3
<1>6. h[n + 1] \in Nat /\ (n > 0 => i[n] \in Nat /\ i[n] <= h[n + 1])
  BY <1>1, <1>2, <1>3
<1>7. b[n + 1] \in Operators => n > 0 /\ i[n] < h[n + 1]
  BY <1>1, <1>2, <1>3
<1> QED
  BY <1>1, <1>3, <1>4, <1>5, <1>6, <1>7 DEF i

\* The returns: of an expression, of a parenthesis, of an operator.
LEMMA FitsExpr ==
  ASSUME NEW h, NEW b, NEW n \in Nat, NEW m \in Nat, NEW w, NEW read,
         Fits(h, b, n + 1, m, "false", w, read), b[n + 1] = "expr",
         NEW g, \A k \in 1 .. n : g[k] = b[k], n > 0 => g[n] = "(", NEW r
  PROVE  \E i : Fits(i, g, n, m, IF w \in {")", End} THEN "true" ELSE "false", w, r)
<1> DEFINE i == [k \in 1 .. n |-> h[k]]
<1>1. /\ i \in [1 .. n -> Nat]
      /\ \A k \in 1 .. n : k > 1 => i[k - 1] <= i[k]
      /\ \A k \in 1 .. n : g[k] \in Operators => k > 1 /\ i[k - 1] < i[k]
      /\ h[n + 1] \in Nat
      /\ n > 0 => i[n] \in Nat /\ i[n] <= h[n + 1]
      /\ w = ")" => h[n + 1] < m
  BY FitsReturn
<1> HIDE DEF i
<1>2. w \in {")", End} => w \notin Openers
  BY DEF End, Openers, Operators
<1>3. n > 0 /\ w = ")" => i[n] < m
  BY <1>1
<1>4. CASE w \in {")", End}
  <2>1. Fits(i, g, n, m, "true", w, r)
    BY <1>1, <1>2, <1>3, <1>4 DEF Fits
  <2> QED
    BY <1>4, <2>1
<1>5. CASE w \notin {")", End}
  <2>1. Fits(i, g, n, m, "false", w, r)
    BY <1>1, <1>5 DEF Fits
  <2> QED
    BY <1>5, <2>1
<1> QED
  BY <1>4, <1>5

\* The call for a parenthesis returns: true on ")" only.
LEMMA FitsClose ==
  ASSUME NEW h, NEW b, NEW n \in Nat, NEW m \in Nat, NEW p, NEW w, NEW read,
         Fits(h, b, n + 1, m, p, w, read), p = "false" => w # ")",
         NEW g, \A k \in 1 .. n : g[k] = b[k], NEW r
  PROVE  \E i : Fits(i, g, n, m, IF p = "true" /\ w = ")" THEN "true" ELSE "false", w, r)
                  \/ p \notin {"true", "false"}
<1> DEFINE i == [k \in 1 .. n |-> h[k]]
<1>1. /\ i \in [1 .. n -> Nat]
      /\ \A k \in 1 .. n : k > 1 => i[k - 1] <= i[k]
      /\ \A k \in 1 .. n : g[k] \in Operators => k > 1 /\ i[k - 1] < i[k]
      /\ h[n + 1] \in Nat
      /\ n > 0 => i[n] \in Nat /\ i[n] <= h[n + 1]
      /\ p = "true" => w \notin Openers
      /\ p = "true" /\ ~(b[n + 1] = "(" /\ w = End) => h[n + 1] < m
  BY FitsReturn
<1> HIDE DEF i
<1>2. CASE p = "true" /\ w = ")"
  <2>1. h[n + 1] < m /\ w \notin Openers
    BY <1>1, <1>2 DEF End
  <2>2. n > 0 => i[n] < m
    BY <1>1, <2>1
  <2>3. Fits(i, g, n, m, "true", w, r)
    BY <1>1, <2>1, <2>2 DEF Fits
  <2> QED
    BY <1>2, <2>3
<1>3. CASE ~(p = "true" /\ w = ")") /\ p \in {"true", "false"}
  <2>1. Fits(i, g, n, m, "false", w, r)
    BY <1>1, <1>3 DEF Fits
  <2> QED
    BY <1>3, <2>1
<1> QED
  BY <1>2, <1>3

\* A call returns true, and the calls around it are g.
Returns(h, b, n, m, w, read, g) ==
  /\ n \in Nat /\ m \in Nat
  /\ Fits(h, b, n + 1, m, "true", w, read) /\ b[n + 1] # "("
  /\ \A k \in 1 .. n : g[k] = b[k]

\* A negation takes an operand and leaves one.
LEMMA FitsNot ==
  ASSUME NEW h, NEW b, NEW n, NEW m, NEW w, NEW read, NEW g, Returns(h, b, n, m, w, read, g), NEW r
  PROVE  \E i : Fits(i, g, n, m, "true", w, r)
<1> DEFINE i == [k \in 1 .. n |-> h[k]]
<1>1. /\ i \in [1 .. n -> Nat]
      /\ \A k \in 1 .. n : k > 1 => i[k - 1] <= i[k]
      /\ \A k \in 1 .. n : g[k] \in Operators => k > 1 /\ i[k - 1] < i[k]
      /\ h[n + 1] \in Nat
      /\ n > 0 => i[n] \in Nat /\ i[n] <= h[n + 1]
      /\ w \notin Openers
      /\ h[n + 1] < m
  BY FitsReturn DEF Returns
<1> HIDE DEF i
<1>2. n > 0 => i[n] < m
  BY <1>1 DEF Returns
<1>3. Fits(i, g, n, m, "true", w, r)
  BY <1>1, <1>2 DEF Fits
<1> QED
  BY <1>3

\* The call for a negation returns true: there is an operand for it.
LEMMA FitsSome ==
  ASSUME NEW h, NEW b, NEW n \in Nat, NEW m \in Nat, NEW w, NEW read,
         Fits(h, b, n + 1, m, "true", w, read), b[n + 1] # "("
  PROVE  m >= 1
<1>1. h[n + 1] \in Nat /\ h[n + 1] < m
  <2>1. n + 1 > 0 /\ n + 1 \in 1 .. n + 1
    OBVIOUS
  <2> QED
    BY <2>1 DEF Fits
<1> QED
  BY <1>1

\* An operator that returns true finds two operands and leaves one.
LEMMA FitsJoin ==
  ASSUME NEW h, NEW b, NEW n \in Nat, NEW m \in Nat, NEW w, NEW read,
         Fits(h, b, n + 1, m, "true", w, read), b[n + 1] \in Operators,
         NEW g, \A k \in 1 .. n : g[k] = b[k], NEW r
  PROVE  m >= 2 /\ \E i : Fits(i, g, n, m - 1, "true", w, r)
<1> DEFINE i == [k \in 1 .. n |-> h[k]]
<1>1. b[n + 1] # "("
  BY DEF Operators
<1>2. /\ i \in [1 .. n -> Nat]
      /\ \A k \in 1 .. n : k > 1 => i[k - 1] <= i[k]
      /\ \A k \in 1 .. n : g[k] \in Operators => k > 1 /\ i[k - 1] < i[k]
      /\ h[n + 1] \in Nat
      /\ n > 0 => i[n] \in Nat /\ i[n] <= h[n + 1]
      /\ n > 0 /\ i[n] < h[n + 1]
      /\ w \notin Openers
      /\ h[n + 1] < m
  BY <1>1, FitsReturn
<1> HIDE DEF i
<1>3. m >= 2 /\ i[n] < m - 1
  BY <1>2
<1>4. Fits(i, g, n, m - 1, "true", w, r)
  BY <1>2, <1>3 DEF Fits
<1> QED
  BY <1>3, <1>4

\* A call that is not that of an expression returns false at once.
LEMMA FitsRefused ==
  ASSUME NEW h, NEW b, NEW n \in Nat, NEW m \in Nat, NEW p, NEW w, NEW read,
         Fits(h, b, n + 1, m, p, w, read), p = "false", b[n + 1] # "expr",
         NEW g, \A k \in 1 .. n : g[k] = b[k], NEW r
  PROVE  \E i : Fits(i, g, n, m, "false", w, r)
<1> DEFINE i == [k \in 1 .. n |-> h[k]]
<1>1. /\ i \in [1 .. n -> Nat]
      /\ \A k \in 1 .. n : k > 1 => i[k - 1] <= i[k]
      /\ \A k \in 1 .. n : g[k] \in Operators => k > 1 /\ i[k - 1] < i[k]
      /\ h[n + 1] \in Nat
      /\ n > 0 => i[n] \in Nat /\ i[n] <= h[n + 1]
      /\ b[n + 1] \in Operators => n > 0 /\ i[n] < h[n + 1]
      /\ p = "true" => w \notin Openers
      /\ p = "true" /\ ~(b[n + 1] = "(" /\ w = End) => h[n + 1] < m
      /\ p = "false" /\ w = ")" => b[n + 1] = "expr" /\ h[n + 1] < m
  BY FitsReturn
<1> HIDE DEF i
<1>2. Fits(i, g, n, m, "false", w, r)
  BY <1>1 DEF Fits
<1> QED
  BY <1>2

-----------------------------------------------------------------------------
\* The current word is the last one that was read.
OpenerRead == Read >= 1 /\ text[Read] = current

\* The parser has what it pops, as long as no operand is missing.
Operands ==
  \/ Incomplete(text)
  \/ /\ parse # "wild"
     /\ \E h : Fits(h, Bottom(calls), Len(calls), Len(stack), parse, current, OpenerRead)

\* A word that no operand can begin with comes where one is wanted.
LEMMA WordMissing ==
  ASSUME Parsing, NEW w \in {")"} \cup Operators, Word(w), OpenerRead, current \in Openers
  PROVE  Incomplete(text)
<1> DEFINE i == Read
           k == Read'
<1>1. w # End
  BY DEF End, Operators
<1>2. i \in Nat /\ k = i + 1 /\ k \in DOMAIN text /\ text[k] = w
  BY <1>1, OneRead DEF Parsing
<1>3. i >= 1 /\ text[i] \in Openers
  BY DEF OpenerRead
<1>4. DOMAIN text = 1 .. Len(text) /\ Len(text) \in Nat
  BY LenProperties DEF Parsing, Reading, WordLists
<1> HIDE DEF i, k
<1>5. i \in DOMAIN text /\ i < k /\ ~(k > i + 1) /\ \A m \in i + 2 .. k - 1 : FALSE
  BY <1>2, <1>3, <1>4
<1> QED
  BY <1>2, <1>3, <1>5 DEF Incomplete, Openers

\* A list of groups comes there, and such a word ends it.
LEMMA ListMissing ==
  ASSUME Parsing, Brackets, current' \in {")"} \cup Operators, OpenerRead, current \in Openers
  PROVE  Incomplete(text)
<1> DEFINE i == Read
           k == Read'
<1>1. /\ i \in Nat /\ k \in Nat /\ i < k /\ k <= Len(text) /\ text[i + 1] = "["
      /\ current' = text[k] /\ \A m \in i + 2 .. k - 1 : text[m] \in GroupNames
  BY BracketsRead DEF Parsing, End, Operators
<1>2. i >= 1 /\ text[i] \in Openers
  BY DEF OpenerRead
<1>3. DOMAIN text = 1 .. Len(text) /\ Len(text) \in Nat
  BY LenProperties DEF Parsing, Reading, WordLists
<1> HIDE DEF i, k
<1>4. i \in DOMAIN text /\ k \in DOMAIN text
  BY <1>1, <1>2, <1>3
<1> QED
  BY <1>1, <1>2, <1>4 DEF Incomplete, Openers

\* The operands that a step leaves on the stack.
LEMMA OperandMore ==
  ASSUME Trees, NEW e, stack' = <<e>> \o stack
  PROVE  Len(stack) \in Nat /\ Len(stack') = Len(stack) + 1
<1>1. stack \in Seq(Rankings \cup {e}) /\ <<e>> \in Seq(Rankings \cup {e}) /\ Len(<<e>>) = 1
  <2>1. stack \in Seq(Rankings \cup {e})
    BY SeqMonotonic DEF Trees
  <2> QED
    BY <2>1
<1>2. Len(stack') = Len(<<e>>) + Len(stack)
  BY <1>1, ConcatProperties
<1>3. Len(stack) \in Nat
  BY <1>1, LenProperties
<1> QED
  BY <1>1, <1>2, <1>3

\* What pops n operands and pushes one.
LEMMA Fewer ==
  ASSUME Trees, NEW n \in {1, 2}, NEW e, Pop(n, e), Len(stack) >= n
  PROVE  parse' = "true" /\ Len(stack') = Len(stack) - n + 1
<1> DEFINE rest == SubSeq(stack, n + 1, Len(stack))
           R == Rankings \cup {e}
<1>1. stack \in Seq(R) /\ Len(stack) \in Nat
  BY SeqMonotonic, LenProperties DEF Trees
<1>2. \A i \in n + 1 .. Len(stack) : stack[i] \in R
  BY <1>1, ElementOfSeq
<1>3. rest \in Seq(R) /\ Len(rest) = IF n + 1 <= Len(stack) THEN Len(stack) - (n + 1) + 1 ELSE 0
  BY <1>1, <1>2, SubSeqProperties
<1>4. Len(rest) = Len(stack) - n
  BY <1>1, <1>3
<1>5. <<e>> \in Seq(R) /\ Len(<<e>>) = 1
  OBVIOUS
<1>6. ~(Len(stack) < n)
  BY <1>1
<1>7. parse' = "true" /\ stack' = <<e>> \o rest
  BY <1>6 DEF Pop
<1> HIDE DEF rest
<1>8. Len(stack') = 1 + Len(rest)
  BY <1>3, <1>5, <1>7, ConcatProperties
<1> QED
  BY <1>1, <1>4, <1>7, <1>8

\* The parser where no operand is missing.
LEMMA OperandsKept ==
  ASSUME Parsing, Operands, ParseNext
  PROVE  Operands'
<1>1. Reading /\ Pending /\ Trees /\ text' = text
  BY ReadingKept DEF Parsing
<1>2. Incomplete(text) => Operands'
  BY <1>1 DEF Operands, Incomplete
<1> SUFFICES ASSUME ~Incomplete(text) PROVE Operands'
  BY <1>2
<1> DEFINE b == Bottom(calls)
           c == Bottom(calls')
           n == Len(calls)
           m == Len(stack)
<1>3. parse # "wild" /\ \E h : Fits(h, b, n, m, parse, current, OpenerRead)
  BY DEF Operands
<1>4. PICK h : Fits(h, b, n, m, parse, current, OpenerRead)
  BY <1>3
<1>5. n \in Nat /\ m \in Nat
  BY <1>1, LenProperties DEF Pending, Trees
<1>6. ASSUME parse' # "wild",
             \E i : Fits(i, c, Len(calls'), Len(stack'), parse', current', OpenerRead')
      PROVE  Operands'
  BY <1>6 DEF Operands
<1>7. parse = "element" /\ n > 0 /\ current \in Openers => OpenerRead
  BY <1>4, <1>5 DEF Fits
<1>8. calls = <<>> <=> n = 0
  BY <1>1, EmptySeq DEF Pending
<1> HIDE DEF b, c, n, m
\* An element that leaves its operand.
<1>9. ASSUME parse = "element", NEW e, stack' = <<e>> \o stack, UNCHANGED calls, parse' = "true",
             current' \notin Openers
      PROVE  Operands'
  <2>1. Len(stack') = m + 1 /\ Len(calls') = n /\ c = b
    BY <1>1, <1>9, OperandMore DEF m, n, b, c
  <2>2. Fits(h, b, n, m, "element", current, OpenerRead)
    BY <1>4, <1>9
  <2>3. Fits(h, b, n, m + 1, "true", current', OpenerRead')
    BY <1>5, <1>9, <2>2, FitsPush
  <2> QED
    BY <1>6, <1>9, <2>1, <2>3
\* One that fails.
<1>10. ASSUME parse = "element", UNCHANGED <<stack, calls>>, parse' = "false",
              current' = ")" /\ n > 0 => current \notin Openers
       PROVE  Operands'
  <2>1. Len(stack') = m /\ Len(calls') = n /\ c = b
    BY <1>10 DEF m, n, b, c
  <2>2. Fits(h, b, n, m, "element", current, OpenerRead)
    BY <1>4, <1>10
  <2>3. Fits(h, b, n, m, "false", current', OpenerRead')
    BY <1>5, <1>10, <2>2, FitsFail
  <2> QED
    BY <1>6, <1>10, <2>1, <2>3
\* A word that is a call.
<1>11. ASSUME NEW a \in {"!"} \cup Operators, Word(a), Call(<<a>>),
              a \in Operators => m > 0 /\ (n > 0 => current \notin Openers)
       PROVE  Operands'
  <2>1. /\ parse = "element" /\ parse' = "element" /\ calls' = <<a>> \o calls /\ current' = a
        /\ stack' = stack /\ a \in Frames /\ a \in Openers /\ a # End
    BY <1>11 DEF Word, Call, Frames, Openers, Operators, End
  <2>2. /\ Len(calls') = n + 1 /\ c[n + 1] = a
        /\ \A k \in 1 .. n : c[k] = b[k]
    BY <1>1, <2>1, Pushed DEF b, c, n
  <2>3. OpenerRead'
    <3>1. Read \in Nat /\ Read' = Read + 1 /\ text[Read'] = a /\ text' = text
      BY <1>1, <1>11, <2>1, OneRead
    <3>2. Read' >= 1
      BY <3>1
    <3> QED
      BY <2>1, <3>1, <3>2 DEF OpenerRead
  <2>4. Fits(h, b, n, m, "element", current, OpenerRead)
    BY <1>4, <2>1
  <2>5. a \in Operators => m > 0 /\ current \notin Openers
    <3>1. n = 0 => m = 0
      BY <2>4 DEF Fits
    <3> QED
      BY <1>5, <1>11, <3>1
  <2>6. \E i : Fits(i, c, n + 1, m, "element", a, TRUE)
    BY <1>5, <2>1, <2>2, <2>4, <2>5, FitsCall
  <2>7. OpenerRead' = TRUE
    BY <2>3 DEF OpenerRead
  <2> QED
    BY <1>6, <2>1, <2>2, <2>6, <2>7 DEF m
<1>12. CASE Nothing
  <2>1. PICK w \in {End, ")"} : Word(w) /\ Fail
    BY <1>12 DEF Nothing
  <2>2. parse = "element" /\ UNCHANGED <<stack, calls>> /\ parse' = "false" /\ current' = w
    BY <2>1 DEF Word, Fail
  <2>3. current' = ")" /\ n > 0 => current \notin Openers
    BY <1>7, <2>1, <2>2, WordMissing
  <2> QED
    BY <1>10, <2>2, <2>3
<1>13. CASE Paren
  <2>1. /\ parse = "element" /\ parse' = "element" /\ calls' = <<"expr", "(">> \o calls
        /\ current' = "(" /\ stack' = stack /\ Word("(") /\ "(" # End
    BY <1>13 DEF Paren, Word, Call, End
  <2>2. ~OnTop("(")
    BY <1>1, <2>1 DEF Pending
  <2>3. /\ Len(calls') = n + 2 /\ c[n + 1] = "(" /\ c[n + 2] = "expr"
        /\ \A k \in 1 .. n : c[k] = b[k]
    BY <1>1, <2>1, <2>2, PushedTwo DEF b, c, n
  <2>4. OpenerRead'
    <3>1. Read \in Nat /\ Read' = Read + 1 /\ text[Read'] = "(" /\ text' = text
      BY <1>1, <2>1, OneRead
    <3>2. Read' >= 1
      BY <3>1
    <3> QED
      BY <2>1, <3>1, <3>2 DEF OpenerRead
  <2>5. Fits(h, b, n, m, "element", current, OpenerRead)
    BY <1>4, <2>1
  <2>7. OpenerRead' = TRUE
    BY <2>4 DEF OpenerRead
  <2>6. \E i : Fits(i, c, n + 2, m, "element", "(", OpenerRead')
    <3>1. n \in Nat /\ m \in Nat /\ (\A k \in 1 .. n : c[k] = b[k])
          /\ c[n + 1] \in {"("} /\ c[n + 2] \in {"expr"}
      BY <1>5, <2>3
    <3> QED
      BY <2>5, <2>7, <3>1, FitsParen
  <2> QED
    BY <1>6, <2>1, <2>3, <2>6 DEF m
<1>14. CASE Constant
  <2>1. PICK e : stack' = <<e>> \o stack
    BY <1>14 DEF Constant, Push
  <2>2. parse = "element" /\ UNCHANGED calls /\ parse' = "true" /\ current' \in {"true", "false"}
    BY <1>14 DEF Constant, Push, Word
  <2> QED
    BY <1>9, <2>1, <2>2 DEF Openers, Operators
<1>15. CASE Affix
  <2>1. PICK w \in DOMAIN Matches : Word(w) /\ Push(Prefixed(w))
    BY <1>15 DEF Affix
  <2>2. w \notin Openers
    BY FilterAssumption DEF Reserved, Openers, Operators
  <2> QED
    BY <1>9, <2>1, <2>2 DEF Word, Push
<1>16. CASE Negation
  BY <1>11, <1>16 DEF Negation, Operators
<1>17. CASE Operation
  <2>1. PICK w \in Operators : Word(w) /\ IF stack = <<>> THEN Fail ELSE Call(<<w>>)
    BY <1>17 DEF Operation
  <2>2. parse = "element" /\ current' = w /\ w # ")"
    BY <2>1 DEF Word, Operators
  <2>3. n > 0 => current \notin Openers
    BY <1>7, <2>1, <2>2, WordMissing
  <2>4. CASE stack = <<>>
    BY <1>10, <2>1, <2>2, <2>4 DEF Fail
  <2>5. CASE stack # <<>>
    <3>1. m > 0
      BY <1>1, <2>5, EmptySeq DEF Trees, m
    <3> QED
      BY <1>11, <2>1, <2>3, <2>5, <3>1
  <2> QED
    BY <2>4, <2>5
<1>18. CASE Unexpected
  <2>1. Next1 # ")"
    BY <1>18 DEF Unexpected, Readable, Reserved
  <2> QED
    BY <1>10, <1>18, <2>1 DEF Unexpected, Word, Fail
<1>19. CASE Brackets
  <2>1. parse = "element" /\ UNCHANGED calls
        /\ \/ parse' = "true" /\ current' = "]" /\ \E e : stack' = <<e>> \o stack
           \/ parse' = "false" /\ UNCHANGED stack
    BY <1>19 DEF Brackets
  <2>2. current' = ")" /\ n > 0 => current \notin Openers
    BY <1>7, <1>19, <2>1, ListMissing
  <2>3. "]" \notin Openers
    BY DEF Openers, Operators
  <2> QED
    BY <1>9, <1>10, <2>1, <2>2, <2>3
<1>20. CASE ReturnExpr
  <2>1. /\ calls # <<>> /\ Head(calls) = "expr" /\ parse \in {"true", "false"}
        /\ current' = current /\ stack' = stack
    BY <1>20 DEF ReturnExpr, Return
  <2>2. CASE parse = "true"
    <3>1. parse' = "element" /\ calls' = calls
      BY <1>20, <2>2 DEF ReturnExpr
    <3>2. b[n] = "expr" /\ n > 0
      <4>1. calls \in Seq(Frames)
        BY <1>1 DEF Pending
      <4>2. \A t : t = Tail(calls) => Bottom(calls)[Len(calls)] = Head(calls)
        BY <2>1, <4>1, CallPopped, Zenon
      <4>3. Bottom(calls)[Len(calls)] = "expr"
        BY <2>1, <4>2
      <4> QED
        BY <1>5, <1>8, <2>1, <4>3 DEF b, n
    <3>3. Fits(h, b, n, m, "true", current, OpenerRead)
      BY <1>4, <2>2
    <3>4. Fits(h, b, n, m, "element", current, OpenerRead')
      BY <1>5, <3>2, <3>3, FitsMore
    <3> QED
      BY <1>6, <2>1, <3>1, <3>4 DEF b, c, n, m
  <2>3. CASE parse # "true"
    <3>1. parse = "false" /\ calls' = Tail(calls)
          /\ parse' = (IF current \in {")", End} THEN "true" ELSE "false")
      BY <1>20, <2>1, <2>3 DEF ReturnExpr
    <3> DEFINE l == Len(calls')
    <3>2. /\ l \in Nat /\ n = l + 1 /\ b[n] = "expr" /\ OnTop("(")'
          /\ \A k \in 1 .. l : c[k] = b[k]
      BY <1>1, <2>1, <3>1, Popped DEF b, c, n
    <3>3. l > 0 => c[l] = "("
      BY <3>2 DEF OnTop, c
    <3> HIDE DEF l
    <3>4. Fits(h, b, l + 1, m, "false", current, OpenerRead)
      BY <1>4, <3>1, <3>2
    <3>5. b[l + 1] = "expr"
      BY <3>2
    <3>6. \E i : Fits(i, c, l, m, IF current \in {")", End} THEN "true" ELSE "false", current, OpenerRead')
      <4>1. l \in Nat /\ m \in Nat /\ \A k \in 1 .. l : c[k] = b[k]
        BY <1>5, <3>2, Zenon
      <4> QED
        BY <3>3, <3>4, <3>5, <4>1, FitsExpr, ZenonT(30)
    <3> QED
      BY <1>6, <2>1, <3>1, <3>6 DEF l, m
  <2> QED
    BY <2>2, <2>3
<1>21. CASE ReturnParen
  <2>1. /\ calls # <<>> /\ Head(calls) = "(" /\ parse \in {"true", "false"}
        /\ current' = current /\ stack' = stack /\ calls' = Tail(calls)
        /\ parse' = IF parse = "true" /\ current = ")" THEN "true" ELSE "false"
    BY <1>21 DEF ReturnParen, Return
  <2> DEFINE l == Len(calls')
  <2>2. /\ l \in Nat /\ n = l + 1 /\ OnTop("(")
        /\ \A k \in 1 .. l : c[k] = b[k]
    BY <1>1, <2>1, Popped DEF b, c, n
  <2>3. parse = "false" => current # ")"
    BY <1>1, <2>2 DEF Pending
  <2> HIDE DEF l
  <2>4. Fits(h, b, l + 1, m, parse, current, OpenerRead)
    BY <1>4, <2>2
  <2>5. \E i : Fits(i, c, l, m, IF parse = "true" /\ current = ")" THEN "true" ELSE "false", current, OpenerRead')
    BY <1>5, <2>1, <2>2, <2>3, <2>4, FitsClose
  <2> QED
    BY <1>6, <2>1, <2>5 DEF l, m
<1>22. CASE ReturnOperator
  <2>1. PICK a \in Operators \cup {"!"} :
          /\ calls' = Tail(calls) /\ calls # <<>> /\ Head(calls) = a /\ parse \in {"true", "false"}
          /\ IF parse = "true" THEN Apply(a) ELSE UNCHANGED <<stack, parse>>
          /\ current' = current
    BY <1>22 DEF ReturnOperator, Return
  <2> DEFINE l == Len(calls')
  <2>2. /\ l \in Nat /\ n = l + 1 /\ b[n] = a
        /\ \A k \in 1 .. l : c[k] = b[k]
    BY <1>1, <2>1, Popped DEF b, c, n
  <2>3. a # "expr"
    BY DEF Operators
  <2> HIDE DEF l
  <2>4. Fits(h, b, l + 1, m, parse, current, OpenerRead) /\ b[l + 1] = a
    BY <1>4, <2>2
  <2>5. CASE parse = "false"
    <3>1. \E i : Fits(i, c, l, m, "false", current, OpenerRead')
      BY <1>5, <2>2, <2>3, <2>4, <2>5, FitsRefused
    <3> QED
      BY <1>6, <2>1, <2>5, <3>1 DEF l, m
  <2>6. CASE parse = "true"
    <3>1. l \in Nat /\ m \in Nat /\ (\A k \in 1 .. l : c[k] = b[k])
          /\ Fits(h, b, l + 1, m, "true", current, OpenerRead)
      BY <1>5, <2>2, <2>4, <2>6
    <3>2. CASE a = "!"
      <4>1. Pop(1, Not(stack[1]))
        BY <2>1, <2>6, <3>2 DEF Apply
      <4>2. b[l + 1] # "(" /\ b[l + 1] = "!"
        BY <2>4, <3>2
      <4>3. m >= 1 /\ \E i : Fits(i, c, l, m, "true", current, OpenerRead')
        <5>1. \E i : Fits(i, c, l, m, "true", current, OpenerRead')
          <6>1. Returns(h, b, l, m, current, OpenerRead, c)
            BY <3>1, <4>2 DEF Returns
          <6> QED
            BY <6>1, FitsNot
        <5>2. m >= 1
          BY <3>1, <4>2, FitsSome
        <5> QED
          BY <5>1, <5>2
      <4>4. parse' = "true" /\ Len(stack') = m
        BY <1>1, <1>5, <4>1, <4>3, Fewer DEF m
      <4> QED
        BY <1>6, <2>1, <4>3, <4>4 DEF l
    <3>3. CASE a # "!"
      <4>1. Pop(2, And(stack[1], stack[2])) \/ Pop(2, Or(stack[1], stack[2]))
        BY <2>1, <2>6, <3>3 DEF Apply, Operators
      <4>2. b[l + 1] \in Operators
        BY <2>4, <3>3
      <4>3. m >= 2 /\ \E i : Fits(i, c, l, m - 1, "true", current, OpenerRead')
        BY <3>1, <4>2, FitsJoin
      <4>4. parse' = "true" /\ Len(stack') = m - 1
        BY <1>1, <1>5, <4>1, <4>3, Fewer DEF m
      <4> QED
        BY <1>6, <2>1, <4>3, <4>4 DEF l
    <3> QED
      BY <3>2, <3>3
  <2> QED
    BY <2>1, <2>5, <2>6
<1>23. CASE Compiled
  <2>1. parse' = "compiled" /\ UNCHANGED <<calls, stack, current>>
    BY <1>23 DEF Compiled
  <2>2. Fits(h, b, n, m, "compiled", current', OpenerRead')
    BY <1>4 DEF Fits
  <2> QED
    BY <1>6, <2>1, <2>2 DEF b, c, n, m
<1> QED
  BY <1>12, <1>13, <1>14, <1>15, <1>16, <1>17, <1>18, <1>19, <1>20, <1>21, <1>22, <1>23 DEF ParseNext

\* The inductive invariant of the parser.
FInv == Parsing /\ Operands /\ (Plain => Balanced /\ Enclosed)

\* A new parser keeps it,
LEMMA FreshKeeps == Fresh => FInv
<1> SUFFICES ASSUME Fresh PROVE FInv
  OBVIOUS
<1>1. Parsing /\ Read = 0
  BY FreshParses
<1>2. calls = <<>> /\ stack = <<>> /\ parse \in {"idle", "element"}
  BY DEF Fresh
<1>3. Len(calls) = 0 /\ Len(stack) = 0
  BY <1>1, <1>2, EmptySeq DEF Parsing, Pending, Trees
<1>4. Operands
  <2> DEFINE h == [k \in 1 .. 0 |-> 0]
  <2>1. Fits(h, Bottom(calls), 0, 0, parse, current, OpenerRead)
    BY <1>2 DEF Fits
  <2>2. parse # "wild"
    BY <1>2
  <2> QED
    BY <1>3, <2>1, <2>2 DEF Operands
<1>5. Balanced /\ Enclosed
  <2>1. Here = 0
    BY <1>1, Depths DEF Here
  <2>2. Opened = 0
    BY <1>3, CountStarts DEF Opened
  <2>3. Balanced
    BY <1>2, <2>1, <2>2 DEF Balanced
  <2>4. Enclosed
    BY <1>1, <1>2 DEF Enclosed
  <2> QED
    BY <2>3, <2>4
<1> QED
  BY <1>1, <1>4, <1>5 DEF FInv

\* ... and so does the server that starts,
LEMMA FInvInit == Init => FInv
<1>1. Init => Fresh
  BY EmptySeq DEF Init, ParserInit, Fresh, WordLists
<1> QED
  BY <1>1, FreshKeeps

\* ... and every step of the parser, of the commands and of the threads.
LEMMA FInvNext == FInv /\ [Next]_vars => FInv'
<1> SUFFICES ASSUME FInv, [Next]_vars PROVE FInv'
  OBVIOUS
<1>1. Fresh' => FInv'
  BY FreshKeeps, PTL
<1>2. ASSUME NEW c, NEW t \in Wheres, Receive(c, t) PROVE FInv'
  <2>1. t.text \in WordLists
    BY WhereTexts
  <2>2. Fresh'
    BY <1>2, <2>1 DEF Receive, Compile, Fresh
  <2> QED
    BY <1>1, <2>2
<1>3. CASE ParseStep
  <2>1. ParseNext
    BY <1>3 DEF ParseStep
  <2>2. Parsing' /\ Operands'
    BY <2>1, ParsingKept, OperandsKept DEF FInv
  <2>3. Plain => Balanced' /\ Enclosed'
    BY <2>1, BalancedKept, EnclosedKept DEF FInv
  <2> QED
    BY <2>2, <2>3 DEF FInv, Plain
<1>4. CASE Run
  <2>1. Fresh'
    BY <1>4, EmptySeq DEF Run, ParserFree, Fresh, WordLists
  <2> QED
    BY <1>1, <2>1
<1>5. ASSUME UNCHANGED parserVars PROVE FInv'
  <2>1. Parsing'
    BY <1>5 DEF FInv, Parsing, Reading, Pending, Trees, OnTop, parserVars
  <2>2. Operands'
    BY <1>5 DEF FInv, Operands, OpenerRead, Read, parserVars
  <2>3. Balanced /\ Enclosed => Balanced' /\ Enclosed'
    BY <1>5 DEF Balanced, Enclosed, OnTop, Here, Opened, Read, parserVars
  <2> QED
    BY <2>1, <2>2, <2>3 DEF FInv, Plain
<1>6. \A w \in Workers : ThreadStep(w) => UNCHANGED parserVars
  BY DEF ThreadStep
<1>7. RankWheres \subseteq Wheres
  BY DEF RankWheres
<1> QED
  BY <1>2, <1>3, <1>4, <1>5, <1>6, <1>7 DEF Next, Other, vars

\* ExprParser reads its text in order, its pending calls stay nested, and its stack
\* holds what they will pop: for every text, every group and every command.
THEOREM ParserInvariance == Spec => []FInv
BY FInvInit, FInvNext, PTL DEF Spec

\* parse_element and parse_operator pop without a test: the stack is empty then
\* only if the text misses an operand.
THEOREM UnderflowsAreMissingOperands == Spec => []UnderflowIsMissingOperand
<1>1. FInv => UnderflowIsMissingOperand
  BY DEF FInv, Operands, UnderflowIsMissingOperand
<1> QED
  BY <1>1, ParserInvariance, PTL

\* What compile accepts is balanced, and a parenthesis that begins the text encloses
\* all of it, as long as no group is called "(" or ")".
THEOREM AcceptedAreBalanced ==
  ASSUME Plain
  PROVE  Spec => []AcceptedIsBalanced
<1>1. FInv => AcceptedIsBalanced
  <2> SUFFICES ASSUME FInv, parse = "compiled", expr # NoExpr, words = <<>>
               PROVE  /\ Depth(text, Len(text)) = 0
                      /\ \A i \in 1 .. Len(text) - 1 : Head(text) = "(" => Depth(text, i) > 0
    BY DEF AcceptedIsBalanced, Accepted
  <2>1. Parsing /\ Balanced /\ Enclosed
    BY DEF FInv
  <2>2. text \in WordLists /\ Len(text) \in Nat /\ Len(words) = 0
    BY <2>1, LenProperties, EmptySeq DEF Parsing, Reading, WordLists
  <2>3. Read = Len(text)
    BY <2>2 DEF Read
  <2>4. Depth(text, Len(text)) = 0
    BY <2>1, <2>3 DEF Balanced, Here
  <2>5. ASSUME NEW i \in 1 .. Len(text) - 1, Head(text) = "(" PROVE Depth(text, i) > 0
    <3>1. Len(text) >= 1 /\ text # <<>>
      BY <2>2, <2>5, EmptySeq
    <3>2. text[1] = "("
      BY <2>2, <2>5, <3>1, HeadTailProperties DEF WordLists
    <3> QED
      BY <2>1, <2>3, <2>5, <3>1, <3>2 DEF Enclosed
  <2> QED
    BY <2>4, <2>5
<1> QED
  BY <1>1, ParserInvariance, PTL

\* A function of a segment is a sequence.
LEMMA SeqOfFunction ==
  ASSUME NEW S, NEW k \in Nat, NEW f \in [1 .. k -> S]
  PROVE  f \in Seq(S) /\ Len(f) = k
<1>1. f \in Seq(S)
  OBVIOUS
<1>2. Len(f) \in Nat /\ DOMAIN f = 1 .. Len(f) /\ DOMAIN f = 1 .. k
  BY <1>1, LenProperties
<1> QED
  BY <1>1, <1>2

\* The unread words are a suffix of the text.
LEMMA SuffixOfText ==
  ASSUME Reading
  PROVE  IsSuffix(words, text)
<1> DEFINE r == Reverse(words)
           q == Reverse(text)
           n == Len(words)
           l == Len(text)
<1>1. /\ text \in WordLists /\ words \in WordLists /\ n <= l /\ n \in Nat /\ l \in Nat
      /\ \A i \in 1 .. n : words[i] = text[l - n + i]
  BY LenProperties DEF Reading, WordLists
<1>2. r \in WordLists /\ q \in WordLists /\ Len(r) = n /\ Len(q) = l
  <2>1. \A i \in 1 .. n : (n - i) + 1 \in 1 .. n
    BY <1>1
  <2>2. \A i \in 1 .. l : (l - i) + 1 \in 1 .. l
    BY <1>1
  <2>3. r \in [1 .. n -> Vocabulary] /\ q \in [1 .. l -> Vocabulary]
    BY <1>1, <2>1, <2>2, ElementOfSeq DEF Reverse, WordLists
  <2> HIDE DEF r, q, n, l
  <2>4. r \in Seq(Vocabulary) /\ Len(r) = n
    BY <1>1, <2>3, SeqOfFunction
  <2>5. q \in Seq(Vocabulary) /\ Len(q) = l
    BY <1>1, <2>3, SeqOfFunction
  <2> QED
    BY <2>4, <2>5 DEF WordLists
<1>3. \A i \in 1 .. n : r[i] = q[i]
  <2> SUFFICES ASSUME NEW i \in 1 .. n PROVE r[i] = q[i]
    OBVIOUS
  <2>1. (n - i) + 1 \in 1 .. n /\ (l - i) + 1 = l - n + ((n - i) + 1) /\ i \in 1 .. l
    BY <1>1
  <2>2. words[(n - i) + 1] = text[(l - i) + 1]
    BY <1>1, <2>1
  <2> QED
    BY <2>1, <2>2 DEF Reverse
<1> HIDE DEF r, q, n, l
<1>4. SubSeq(r, 1, n) = SubSeq(q, 1, n)
  <2>1. \A i \in 1 .. n : r[i] \in Vocabulary /\ q[i] \in Vocabulary
    BY <1>1, <1>2, ElementOfSeq DEF WordLists
  <2>2. /\ SubSeq(r, 1, n) \in WordLists /\ SubSeq(q, 1, n) \in WordLists
        /\ Len(SubSeq(r, 1, n)) = IF 1 <= n THEN n - 1 + 1 ELSE 0
        /\ Len(SubSeq(q, 1, n)) = IF 1 <= n THEN n - 1 + 1 ELSE 0
        /\ \A i \in 1 .. n - 1 + 1 : SubSeq(r, 1, n)[i] = r[1 + i - 1]
        /\ \A i \in 1 .. n - 1 + 1 : SubSeq(q, 1, n)[i] = q[1 + i - 1]
    BY <1>1, <1>2, <2>1, SubSeqProperties DEF WordLists
  <2>3. Len(SubSeq(r, 1, n)) = n /\ Len(SubSeq(q, 1, n)) = n
    BY <1>1, <2>2
  <2>4. \A i \in 1 .. n : SubSeq(r, 1, n)[i] = SubSeq(q, 1, n)[i]
    <3> SUFFICES ASSUME NEW i \in 1 .. n PROVE SubSeq(r, 1, n)[i] = SubSeq(q, 1, n)[i]
      OBVIOUS
    <3>1. i \in 1 .. n - 1 + 1 /\ 1 + i - 1 = i
      BY <1>1
    <3> QED
      BY <1>3, <2>2, <3>1
  <2> QED
    BY <2>2, <2>3, <2>4, SeqEqual DEF WordLists
<1>5. IsPrefix(r, q)
  BY <1>1, <1>2, <1>4 DEF IsPrefix
<1> QED
  BY <1>5 DEF r, q, IsSuffix

\* Types.
THEOREM QueriesTyped == Spec => []TypeOK
<1>1. FInv => ParserOK
  <2> SUFFICES ASSUME FInv PROVE ParserOK
    OBVIOUS
  <2>1. Reading /\ Pending /\ Trees
    BY DEF FInv, Parsing
  <2>2. ToSet(calls) \subseteq {"expr", "(", "!"} \cup Operators
    <3>1. calls \in Seq(Frames)
      BY <2>1 DEF Pending
    <3>2. \A i \in DOMAIN calls : calls[i] \in Frames
      BY <3>1, LenProperties, ElementOfSeq
    <3> QED
      BY <3>2 DEF ToSet, Frames
  <2>3. ToSet(stack) \subseteq SUBSET Contexts
    <3>1. stack \in Seq(Rankings)
      BY <2>1 DEF Trees
    <3>2. \A i \in DOMAIN stack : stack[i] \in Rankings
      BY <3>1, LenProperties, ElementOfSeq
    <3> QED
      BY <3>2 DEF ToSet, Rankings
  <2>4. parse \in {"idle", "element", "true", "false", "compiled", "wild"}
    BY <2>1 DEF Pending
  <2>5. expr \in {NoExpr} \cup SUBSET Contexts
    BY <2>1 DEF Trees, Rankings
  <2> QED
    BY <2>1, <2>2, <2>3, <2>4, <2>5, SuffixOfText DEF ParserOK
<1>2. QInv => RankingOK
  <2> SUFFICES ASSUME QInv PROVE RankingOK
    OBVIOUS
  <2>1. RTyped /\ Named
    BY DEF QInv, RInv
  <2>2. \A c \in DOMAIN heap : heap[c].owner \in Workers \cup {Nobody}
    <3>1. \A c \in DOMAIN heap : heap[c] \in ContestRecords
      BY <2>1, LenProperties, ElementOfSeq DEF RTyped
    <3> QED
      BY <3>1 DEF ContestRecords
  <2> QED
    BY <2>1, <2>2 DEF RTyped, Named, RankingOK
<1> QED
  BY <1>1, <1>2, ParserInvariance, RankingInvariance, PTL DEF TypeOK

=============================================================================
