--------------------------- MODULE RankingProofs ---------------------------
(***************************************************************************)
(* What Queries keeps of tops and contests, for any number of users,       *)
(* threads, names and groups.  First the lists: which items come first in  *)
(* the order of the scores, and what a list that is cut again and again    *)
(* keeps of all that it was given.  Then the jobs of the threads, each     *)
(* with what its next steps rely on, and one lemma for each step.          *)
(***************************************************************************)
EXTENDS Queries, SequenceTheorems, FiniteSetTheorems, WellFoundedInduction, TLAPS

Items == [user : UserIds, score : Int]

\* The items that come before the k-th, and how many they are.
Ahead(items, k) == {i \in DOMAIN items : Before(items, i, k)}
Place(items, k) == Cardinality(Ahead(items, k))

\* A list as a function.
LEMMA Listed ==
  ASSUME NEW items \in Seq(Items)
  PROVE  /\ Len(items) \in Nat /\ DOMAIN items = 1 .. Len(items)
         /\ IsFiniteSet(DOMAIN items) /\ Cardinality(DOMAIN items) = Len(items)
         /\ \A i \in DOMAIN items : items[i] \in Items /\ items[i].score \in Int
<1>1. Len(items) \in Nat /\ DOMAIN items = 1 .. Len(items) /\ items \in [1 .. Len(items) -> Items]
  BY LenProperties
<1>2. IsFiniteSet(1 .. Len(items)) /\ Cardinality(1 .. Len(items)) = Len(items)
  BY <1>1, FS_Interval
<1> QED
  BY <1>1, <1>2 DEF Items

\* Before is a strict total order of the positions.
LEMMA TotalOrder ==
  ASSUME NEW items \in Seq(Items), NEW i \in DOMAIN items, NEW k \in DOMAIN items
  PROVE  /\ ~Before(items, i, i)
         /\ Before(items, i, k) => ~Before(items, k, i)
         /\ i # k => Before(items, i, k) \/ Before(items, k, i)
         /\ \A m \in DOMAIN items : Before(items, i, k) /\ Before(items, k, m) => Before(items, i, m)
<1>1. i \in Nat /\ k \in Nat /\ items[i].score \in Int /\ items[k].score \in Int
  BY Listed
<1>2. \A m \in DOMAIN items : m \in Nat /\ items[m].score \in Int
  BY Listed
<1> QED
  BY <1>1, <1>2 DEF Before

\* Places are numbers less than the length,
LEMMA Places ==
  ASSUME NEW items \in Seq(Items), NEW k \in DOMAIN items
  PROVE  IsFiniteSet(Ahead(items, k)) /\ Place(items, k) \in 0 .. Len(items) - 1
<1> DEFINE D == DOMAIN items
<1>1. IsFiniteSet(D) /\ Cardinality(D) = Len(items) /\ Len(items) \in Nat
  BY Listed
<1>2. Ahead(items, k) \in SUBSET (D \ {k})
  BY TotalOrder DEF Ahead
<1>3. IsFiniteSet(D \ {k}) /\ Cardinality(D \ {k}) = Len(items) - 1
  BY <1>1, FS_RemoveElement
<1> HIDE DEF D
<1>4. IsFiniteSet(Ahead(items, k)) /\ Cardinality(Ahead(items, k)) <= Cardinality(D \ {k})
  BY <1>2, <1>3, FS_Subset
<1>5. Cardinality(Ahead(items, k)) \in Nat
  BY <1>4, FS_CardinalityType
<1> QED
  BY <1>1, <1>3, <1>4, <1>5 DEF Place

\* ... in the order of the positions,
LEMMA PlacesInOrder ==
  ASSUME NEW items \in Seq(Items), NEW i \in DOMAIN items, NEW k \in DOMAIN items
  PROVE  /\ Before(items, i, k) <=> Place(items, i) < Place(items, k)
         /\ i = k <=> Place(items, i) = Place(items, k)
<1>1. ASSUME NEW a \in DOMAIN items, NEW b \in DOMAIN items, Before(items, a, b)
      PROVE  Place(items, a) < Place(items, b)
  <2>1. Ahead(items, a) \in SUBSET Ahead(items, b)
    BY <1>1, TotalOrder DEF Ahead
  <2>2. a \in Ahead(items, b) /\ a \notin Ahead(items, a)
    BY <1>1, TotalOrder DEF Ahead
  <2>3. /\ Cardinality(Ahead(items, a)) <= Cardinality(Ahead(items, b))
        /\ Cardinality(Ahead(items, b)) # Cardinality(Ahead(items, a))
    BY <2>1, <2>2, Places, FS_Subset
  <2>4. Place(items, a) \in Int /\ Place(items, b) \in Int
    BY Places, Listed
  <2> QED
    BY <2>3, <2>4 DEF Place
<1>2. Place(items, i) \in Int /\ Place(items, k) \in Int
  BY Places, Listed
<1>3. Before(items, i, k) => Place(items, i) < Place(items, k)
  BY <1>1
<1>4. Before(items, k, i) => Place(items, k) < Place(items, i)
  BY <1>1
<1>5. i = k \/ Before(items, i, k) \/ Before(items, k, i)
  BY TotalOrder
<1> QED
  BY <1>2, <1>3, <1>4, <1>5

\* ... and each of them is somebody's.
LEMMA PlacesTaken ==
  ASSUME NEW items \in Seq(Items), NEW r \in 1 .. Len(items)
  PROVE  \E k \in DOMAIN items : Place(items, k) = r - 1
<1> DEFINE D == DOMAIN items
           R == 0 .. Len(items) - 1
           f == [k \in D |-> Place(items, k)]
<1>1. Len(items) \in Nat /\ IsFiniteSet(D) /\ Cardinality(D) = Len(items)
  BY Listed
<1>2. f \in Injection(D, R)
  <2>1. f \in [D -> R]
    BY Places
  <2>2. \A a, b \in D : f[a] = f[b] => a = b
    BY PlacesInOrder
  <2> QED
    BY <2>1, <2>2 DEF Injection, IsInjective
<1>3. IsFiniteSet(R) /\ Cardinality(R) = Len(items)
  <2>1. 0 \in Int /\ Len(items) - 1 \in Int /\ Len(items) > 0
    BY <1>1
  <2>2. IsFiniteSet(R) /\ Cardinality(R) = IF 0 > Len(items) - 1 THEN 0 ELSE Len(items) - 1 - 0 + 1
    BY <2>1, FS_Interval
  <2> QED
    BY <1>1, <2>1, <2>2
<1> HIDE DEF D, R, f
<1>4. f \in Surjection(D, R)
  BY <1>1, <1>2, <1>3, FS_Injection
<1>5. r - 1 \in R
  BY <1>1 DEF R
<1>6. \E k \in D : f[k] = r - 1
  BY <1>4, <1>5 DEF Surjection
<1> QED
  BY <1>6 DEF f, D

\* Who has a place, and the list in the order of the places.
Taker(items, r) == CHOOSE k \in DOMAIN items : Place(items, k) = r - 1

\* Segments from 1 that are equal end at the same number.
LEMMA SameEnds ==
  ASSUME NEW m \in Nat, NEW n \in Nat, 1 .. m = 1 .. n
  PROVE  m = n
<1>1. CASE m < n
  BY <1>1
<1>2. CASE n < m
  BY <1>2
<1> QED
  BY <1>1, <1>2

\* Sort lists the items place by place: the r-th is the one with r - 1 items ahead.
LEMMA Takers ==
  ASSUME NEW items \in Seq(Items)
  PROVE  /\ \A r \in 1 .. Len(items) :
              /\ Taker(items, r) \in DOMAIN items /\ Place(items, Taker(items, r)) = r - 1
              /\ Sort(items)[r] = items[Taker(items, r)]
         /\ \A k \in DOMAIN items : /\ Place(items, k) + 1 \in 1 .. Len(items)
                                    /\ Taker(items, Place(items, k) + 1) = k
         /\ Sort(items) \in Seq(Items) /\ Len(Sort(items)) = Len(items)
         /\ \A r, q \in 1 .. Len(items) : Before(items, Taker(items, r), Taker(items, q)) <=> r < q
<1>1. ASSUME NEW r \in 1 .. Len(items)
      PROVE  Taker(items, r) \in DOMAIN items /\ Place(items, Taker(items, r)) = r - 1
  BY PlacesTaken DEF Taker
<1>2. Len(items) \in Nat /\ DOMAIN items = 1 .. Len(items)
  BY Listed
<1>3. Sort(items) = [r \in 1 .. Len(items) |-> items[Taker(items, r)]]
  BY <1>2 DEF Sort, Taker, Place, Ahead
<1>4. \A r \in 1 .. Len(items) : items[Taker(items, r)] \in Items
  BY <1>1, Listed
<1>5. [r \in 1 .. Len(items) |-> items[Taker(items, r)]] \in Seq(Items)
  BY <1>2, <1>4, IsASeq
<1>6. Len(Sort(items)) = Len(items)
  <2>1. DOMAIN Sort(items) = 1 .. Len(Sort(items)) /\ Len(Sort(items)) \in Nat
    BY <1>3, <1>5, LenProperties
  <2>2. DOMAIN Sort(items) = 1 .. Len(items)
    BY <1>3
  <2> QED
    BY <1>2, <2>1, <2>2, SameEnds
<1>7. ASSUME NEW k \in DOMAIN items
      PROVE  /\ Place(items, k) + 1 \in 1 .. Len(items)
             /\ Taker(items, Place(items, k) + 1) = k
  <2>1. Place(items, k) \in 0 .. Len(items) - 1
    BY Places
  <2>2. Place(items, k) + 1 \in 1 .. Len(items) /\ (Place(items, k) + 1) - 1 = Place(items, k)
    BY <1>2, <2>1
  <2>3. Taker(items, Place(items, k) + 1) \in DOMAIN items
    BY <1>1, <2>2
  <2>4. Place(items, Taker(items, Place(items, k) + 1)) = Place(items, k)
    BY <1>1, <2>2
  <2> QED
    BY <2>2, <2>3, <2>4, PlacesInOrder
<1>8. ASSUME NEW r \in 1 .. Len(items), NEW q \in 1 .. Len(items)
      PROVE  Before(items, Taker(items, r), Taker(items, q)) <=> r < q
  <2>1. Before(items, Taker(items, r), Taker(items, q)) <=> r - 1 < q - 1
    BY <1>1, PlacesInOrder
  <2> QED
    BY <1>2, <2>1
<1> QED
  BY <1>1, <1>3, <1>5, <1>6, <1>7, <1>8

-----------------------------------------------------------------------------
\* The positions a top has kept of those it saw: it keeps their order, and those it
\* has not kept come after size others.
Kept(list, items, size, e) ==
  /\ e \in [DOMAIN list -> DOMAIN items]
  /\ \A i \in DOMAIN list : list[i] = items[e[i]]
  /\ \A i, k \in DOMAIN list : Before(list, i, k) <=> Before(items, e[i], e[k])
  /\ \A p \in DOMAIN items : (\A i \in DOMAIN list : e[i] # p) => Place(items, p) >= size

\* Each of those seen is kept once.
LEMMA KeptOnce ==
  ASSUME NEW list \in Seq(Items), NEW items \in Seq(Items), NEW size \in Nat, NEW e,
         Kept(list, items, size, e)
  PROVE  /\ \A i, k \in DOMAIN list : e[i] = e[k] => i = k
         /\ Len(list) <= Len(items)
<1>1. ASSUME NEW i \in DOMAIN list, NEW k \in DOMAIN list, e[i] = e[k], i # k PROVE FALSE
  <2>1. e[i] \in DOMAIN items
    BY DEF Kept
  <2>2. Before(items, e[i], e[i])
    BY <1>1, TotalOrder DEF Kept
  <2> QED
    BY <2>1, <2>2, TotalOrder
<1>2. Len(list) <= Len(items)
  <2>1. e \in Injection(DOMAIN list, DOMAIN items)
    BY <1>1 DEF Kept, Injection, IsInjective
  <2>2. IsFiniteSet(DOMAIN items)
    BY Listed
  <2>3. Cardinality(DOMAIN list) <= Cardinality(DOMAIN items)
    BY <2>1, <2>2, FS_Injection
  <2> QED
    BY <2>3, Listed
<1> QED
  BY <1>1, <1>2

\* What is kept does not come later, and the best keep their places.
LEMMA KeptPlaces ==
  ASSUME NEW list \in Seq(Items), NEW items \in Seq(Items), NEW size \in Nat, NEW e,
         Kept(list, items, size, e), NEW k \in DOMAIN list
  PROVE  /\ Place(list, k) <= Place(items, e[k])
         /\ Place(items, e[k]) < size => Place(list, k) = Place(items, e[k])
<1> DEFINE A == Ahead(list, k)
           B == Ahead(items, e[k])
           g == [i \in A |-> e[i]]
<1>1. e[k] \in DOMAIN items /\ A \subseteq DOMAIN list
  BY DEF Kept, Ahead
<1>2. IsFiniteSet(B) /\ Place(items, e[k]) \in 0 .. Len(items) - 1 /\ Len(items) \in Nat
  BY <1>1, Places, Listed
<1>3. g \in Injection(A, B)
  <2>1. \A i \in A : e[i] \in B
    BY DEF Kept, Ahead
  <2>2. \A i, j \in A : e[i] = e[j] => i = j
    BY <1>1, KeptOnce
  <2> QED
    BY <2>1, <2>2 DEF Injection, IsInjective
<1>4. ASSUME Place(items, e[k]) < size
      PROVE  g \in Surjection(A, B)
  <2>1. ASSUME NEW p \in B PROVE \E i \in A : g[i] = p
    <3>1. p \in DOMAIN items /\ Before(items, p, e[k])
      BY DEF Ahead
    <3>2. Place(items, p) < Place(items, e[k])
      BY <1>1, <3>1, PlacesInOrder
    <3>3. Place(items, p) \in 0 .. Len(items) - 1
      BY <3>1, Places
    <3>4. ~(Place(items, p) >= size)
      BY <1>2, <1>4, <3>2, <3>3
    <3>5. PICK i \in DOMAIN list : e[i] = p
      BY <3>1, <3>4 DEF Kept
    <3>6. Before(list, i, k)
      BY <3>1, <3>5 DEF Kept
    <3> QED
      BY <3>5, <3>6 DEF Ahead
  <2> HIDE DEF A, B, g
  <2>2. g \in [A -> B]
    BY <1>3 DEF Injection
  <2> QED
    BY <2>1, <2>2 DEF Surjection
<1> HIDE DEF A, B, g
<1>5. /\ Cardinality(A) <= Cardinality(B)
      /\ Cardinality(A) = Cardinality(B) <=> g \in Surjection(A, B)
  BY <1>2, <1>3, FS_Injection
<1> QED
  BY <1>4, <1>5 DEF A, B, Place

\* The lesser of two numbers.
LEMMA Lesser ==
  ASSUME NEW a \in Nat, NEW b \in Nat
  PROVE  Min({a, b}) = IF a <= b THEN a ELSE b
<1>1. CASE a <= b
  BY <1>1 DEF Min
<1>2. CASE ~(a <= b)
  BY <1>2 DEF Min
<1> QED
  BY <1>1, <1>2

\* The first size of a list.
LEMMA Cutting ==
  ASSUME NEW S, NEW items \in Seq(S), NEW size \in Nat
  PROVE  /\ Cut(items, size) \in Seq(S)
         /\ Len(Cut(items, size)) = IF size <= Len(items) THEN size ELSE Len(items)
         /\ \A r \in 1 .. Len(Cut(items, size)) : r \in 1 .. Len(items) /\ Cut(items, size)[r] = items[r]
<1> DEFINE n == IF size <= Len(items) THEN size ELSE Len(items)
<1>1. Len(items) \in Nat /\ items \in [1 .. Len(items) -> S]
  BY LenProperties
<1>2. Cut(items, size) = SubSeq(items, 1, n)
  BY <1>1, Lesser DEF Cut
<1>3. n \in Nat /\ n <= Len(items) /\ 1 \in Int /\ n \in Int /\ \A i \in 1 .. n : items[i] \in S
  BY <1>1
<1> HIDE DEF n
<1>4. /\ SubSeq(items, 1, n) \in Seq(S)
      /\ Len(SubSeq(items, 1, n)) = IF 1 <= n THEN n - 1 + 1 ELSE 0
      /\ \A i \in 1 .. n - 1 + 1 : SubSeq(items, 1, n)[i] = items[1 + i - 1]
  BY <1>3, SubSeqProperties
<1>5. Len(SubSeq(items, 1, n)) = n
  BY <1>3, <1>4
<1>6. ASSUME NEW r \in 1 .. n PROVE r \in 1 .. Len(items) /\ SubSeq(items, 1, n)[r] = items[r]
  <2>1. r \in 1 .. n - 1 + 1 /\ 1 + r - 1 = r /\ r \in 1 .. Len(items)
    BY <1>1, <1>3
  <2> QED
    BY <1>4, <2>1
<1> QED
  BY <1>2, <1>4, <1>5, <1>6 DEF n

\* The best of those kept are the best of those seen.
LEMMA KeptBest ==
  ASSUME NEW list \in Seq(Items), NEW items \in Seq(Items), NEW size \in Nat, NEW e,
         Kept(list, items, size, e)
  PROVE  Cut(Sort(list), size) = Cut(Sort(items), size)
<1> DEFINE a == Cut(Sort(list), size)
           b == Cut(Sort(items), size)
<1>1. /\ Sort(list) \in Seq(Items) /\ Len(Sort(list)) = Len(list)
      /\ Sort(items) \in Seq(Items) /\ Len(Sort(items)) = Len(items)
      /\ Len(list) \in Nat /\ Len(items) \in Nat /\ Len(list) <= Len(items)
  BY Takers, Listed, KeptOnce
<1>2. /\ a \in Seq(Items) /\ Len(a) = IF size <= Len(list) THEN size ELSE Len(list)
      /\ b \in Seq(Items) /\ Len(b) = IF size <= Len(items) THEN size ELSE Len(items)
      /\ \A r \in 1 .. Len(a) : a[r] = Sort(list)[r]
      /\ \A r \in 1 .. Len(b) : b[r] = Sort(items)[r]
  <2>1. /\ a \in Seq(Items) /\ Len(a) = IF size <= Len(list) THEN size ELSE Len(list)
        /\ \A r \in 1 .. Len(a) : a[r] = Sort(list)[r]
    <3>1. ASSUME NEW l \in Seq(Items)
          PROVE  /\ Cut(l, size) \in Seq(Items)
                 /\ Len(Cut(l, size)) = IF size <= Len(l) THEN size ELSE Len(l)
                 /\ \A r \in 1 .. Len(Cut(l, size)) : Cut(l, size)[r] = l[r]
      BY Cutting
    <3> QED
      BY <1>1, <3>1
  <2>2. /\ b \in Seq(Items) /\ Len(b) = IF size <= Len(items) THEN size ELSE Len(items)
        /\ \A r \in 1 .. Len(b) : b[r] = Sort(items)[r]
    <3>1. ASSUME NEW l \in Seq(Items)
          PROVE  /\ Cut(l, size) \in Seq(Items)
                 /\ Len(Cut(l, size)) = IF size <= Len(l) THEN size ELSE Len(l)
                 /\ \A r \in 1 .. Len(Cut(l, size)) : Cut(l, size)[r] = l[r]
      BY Cutting
    <3> QED
      BY <1>1, <3>1
  <2> QED
    BY <2>1, <2>2
<1>3. ASSUME NEW r \in 1 .. Len(items), r <= size
      PROVE  r <= Len(list) /\ Sort(list)[r] = Sort(items)[r]
  <2> DEFINE p == Taker(items, r)
  <2>1. p \in DOMAIN items /\ Place(items, p) = r - 1 /\ Sort(items)[r] = items[p]
    BY Takers
  <2> HIDE DEF p
  <2>2. ~(Place(items, p) >= size)
    BY <1>1, <1>3, <2>1
  <2>3. PICK i \in DOMAIN list : e[i] = p
    BY <2>1, <2>2 DEF Kept
  <2>4. Place(list, i) = r - 1
    BY <1>1, <1>3, <2>1, <2>3, KeptPlaces
  <2>5. (r - 1) + 1 \in 1 .. Len(list) /\ Taker(list, (r - 1) + 1) = i
    BY <2>4, Takers
  <2>6. (r - 1) + 1 = r
    BY <1>1
  <2>7. r \in 1 .. Len(list) /\ Sort(list)[r] = list[i]
    BY <2>5, <2>6, Takers
  <2>8. list[i] = items[p]
    BY <2>3 DEF Kept
  <2> QED
    BY <1>1, <2>1, <2>7, <2>8
<1> HIDE DEF a, b
<1>4. Len(a) = Len(b)
  <2>1. CASE size <= Len(items)
    <3>1. CASE size = 0
      BY <1>1, <1>2, <3>1
    <3>2. CASE size # 0
      <4>1. size \in 1 .. Len(items)
        BY <1>1, <2>1, <3>2
      <4> QED
        BY <1>1, <1>2, <1>3, <4>1
    <3> QED
      BY <3>1, <3>2
  <2>2. CASE ~(size <= Len(items))
    <3>1. CASE Len(items) = 0
      BY <1>1, <1>2, <2>2, <3>1
    <3>2. CASE Len(items) # 0
      <4>1. Len(items) \in 1 .. Len(items) /\ Len(items) <= size
        BY <1>1, <2>2, <3>2
      <4>2. Len(items) <= Len(list)
        BY <1>3, <4>1
      <4> QED
        BY <1>1, <1>2, <2>2, <4>2
    <3> QED
      BY <3>1, <3>2
  <2> QED
    BY <2>1, <2>2
<1>5. \A r \in 1 .. Len(a) : a[r] = b[r]
  BY <1>1, <1>2, <1>3, <1>4
<1> QED
  BY <1>2, <1>4, <1>5, SeqEqual DEF a, b

\* One more in a list comes after those of its score.
LEMMA OneMore ==
  ASSUME NEW items \in Seq(Items), NEW x \in Items
  PROVE  /\ Append(items, x) \in Seq(Items) /\ Len(Append(items, x)) = Len(items) + 1
         /\ DOMAIN Append(items, x) = 1 .. Len(items) + 1
         /\ \A i \in DOMAIN items : i \in DOMAIN Append(items, x) /\ Append(items, x)[i] = items[i]
         /\ Append(items, x)[Len(items) + 1] = x
         /\ \A i, k \in DOMAIN items : Before(Append(items, x), i, k) <=> Before(items, i, k)
         /\ \A i \in DOMAIN items :
              /\ Before(Append(items, x), i, Len(items) + 1) <=> items[i].score >= x.score
              /\ Before(Append(items, x), Len(items) + 1, i) <=> x.score > items[i].score
         /\ ~Before(Append(items, x), Len(items) + 1, Len(items) + 1)
         /\ \A k \in DOMAIN items : Place(Append(items, x), k) >= Place(items, k)
<1> DEFINE more == Append(items, x)
<1>1. /\ more \in Seq(Items) /\ Len(more) = Len(items) + 1 /\ more[Len(items) + 1] = x
      /\ \A i \in 1 .. Len(items) : more[i] = items[i]
  BY AppendProperties
<1>2. /\ Len(items) \in Nat /\ DOMAIN items = 1 .. Len(items) /\ DOMAIN more = 1 .. Len(more)
      /\ x.score \in Int /\ \A i \in DOMAIN items : items[i].score \in Int
  BY <1>1, Listed DEF Items
<1> HIDE DEF more
<1>3. \A i \in DOMAIN items : i \in DOMAIN more /\ i \in Nat /\ more[i] = items[i]
  BY <1>1, <1>2
<1>4. \A i, k \in DOMAIN items : Before(more, i, k) <=> Before(items, i, k)
  BY <1>3 DEF Before
<1>5. ASSUME NEW i \in DOMAIN items
      PROVE  /\ Before(more, i, Len(items) + 1) <=> items[i].score >= x.score
             /\ Before(more, Len(items) + 1, i) <=> x.score > items[i].score
  <2>1. i < Len(items) + 1 /\ ~(Len(items) + 1 < i)
    BY <1>2
  <2>2. more[i] = items[i] /\ items[i].score \in Int /\ x.score \in Int
    BY <1>2, <1>3
  <2> QED
    BY <1>1, <2>1, <2>2 DEF Before
<1>6. ~Before(more, Len(items) + 1, Len(items) + 1)
  BY <1>1, <1>2 DEF Before
<1>7. ASSUME NEW k \in DOMAIN items PROVE Place(more, k) >= Place(items, k)
  <2>1. Ahead(items, k) \in SUBSET Ahead(more, k)
    BY <1>3, <1>4, <1>7 DEF Ahead
  <2>2. IsFiniteSet(Ahead(more, k)) /\ Place(more, k) \in Int /\ Place(items, k) \in Int
    <3>1. k \in DOMAIN more /\ Len(more) \in Nat
      BY <1>1, <1>2, <1>3
    <3> QED
      BY <1>1, <1>2, <3>1, Places
  <2>3. Cardinality(Ahead(items, k)) <= Cardinality(Ahead(more, k))
    BY <2>1, <2>2, FS_Subset
  <2> QED
    BY <2>2, <2>3 DEF Place
<1> QED
  BY <1>1, <1>2, <1>3, <1>4, <1>5, <1>6, <1>7 DEF more

\* A top that keeps the new one.
LEMMA KeptNew ==
  ASSUME NEW list \in Seq(Items), NEW items \in Seq(Items), NEW size \in Nat, NEW e,
         Kept(list, items, size, e), NEW x \in Items
  PROVE  \E f : Kept(Append(list, x), Append(items, x), size, f)
<1> DEFINE l == Append(list, x)
           s == Append(items, x)
           m == Len(list) + 1
           n == Len(items) + 1
           f == [i \in DOMAIN l |-> IF i \in DOMAIN list THEN e[i] ELSE n]
<1>1. /\ l \in Seq(Items) /\ s \in Seq(Items)
      /\ DOMAIN l = 1 .. m /\ DOMAIN s = 1 .. n
      /\ DOMAIN list = 1 .. Len(list) /\ DOMAIN items = 1 .. Len(items)
      /\ Len(list) \in Nat /\ Len(items) \in Nat
      /\ \A i \in DOMAIN list : l[i] = list[i]
      /\ \A i \in DOMAIN items : s[i] = items[i]
      /\ l[m] = x /\ s[n] = x
  BY OneMore, Listed
<1>2. /\ \A i, k \in DOMAIN list : Before(l, i, k) <=> Before(list, i, k)
      /\ \A i \in DOMAIN list : Before(l, i, m) <=> list[i].score >= x.score
      /\ \A i \in DOMAIN list : Before(l, m, i) <=> x.score > list[i].score
      /\ ~Before(l, m, m)
  BY OneMore
<1>3. /\ \A i, k \in DOMAIN items : Before(s, i, k) <=> Before(items, i, k)
      /\ \A i \in DOMAIN items : Before(s, i, n) <=> items[i].score >= x.score
      /\ \A i \in DOMAIN items : Before(s, n, i) <=> x.score > items[i].score
      /\ ~Before(s, n, n)
      /\ \A k \in DOMAIN items : Place(s, k) >= Place(items, k)
  BY OneMore
<1> HIDE DEF l, s
<1>4. /\ \A i \in DOMAIN list : e[i] \in DOMAIN items /\ list[i] = items[e[i]]
      /\ \A i, k \in DOMAIN list : Before(list, i, k) <=> Before(items, e[i], e[k])
      /\ \A p \in DOMAIN items : (\A i \in DOMAIN list : e[i] # p) => Place(items, p) >= size
  BY DEF Kept
<1>5. \A i \in DOMAIN l : i \in DOMAIN list \/ i = m
  BY <1>1
<1>6. m \notin DOMAIN list /\ m \in DOMAIN l /\ n \in DOMAIN s /\ n \notin DOMAIN items
  BY <1>1
<1>7. \A i \in DOMAIN list : i \in DOMAIN l
  BY <1>1
<1> HIDE DEF m, n
<1>8. /\ \A i \in DOMAIN list : f[i] = e[i]
      /\ f[m] = n
  BY <1>6, <1>7
<1>9. f \in [DOMAIN l -> DOMAIN s]
  BY <1>1, <1>4, <1>5, <1>6 DEF n
<1> HIDE DEF f
<1>10. \A i \in DOMAIN l : l[i] = s[f[i]]
  BY <1>1, <1>4, <1>5, <1>8
<1>11. ASSUME NEW i \in DOMAIN l, NEW k \in DOMAIN l PROVE Before(l, i, k) <=> Before(s, f[i], f[k])
  <2>1. CASE i \in DOMAIN list /\ k \in DOMAIN list
    BY <1>2, <1>3, <1>4, <1>8, <2>1
  <2>2. CASE i \in DOMAIN list /\ k = m
    <3>1. Before(l, i, k) <=> items[e[i]].score >= x.score
      BY <1>2, <1>4, <2>2
    <3> QED
      BY <1>3, <1>4, <1>8, <2>2, <3>1
  <2>3. CASE i = m /\ k \in DOMAIN list
    <3>1. Before(l, i, k) <=> x.score > items[e[k]].score
      BY <1>2, <1>4, <2>3
    <3> QED
      BY <1>3, <1>4, <1>8, <2>3, <3>1
  <2>4. CASE i = m /\ k = m
    BY <1>2, <1>3, <1>8, <2>4
  <2> QED
    BY <1>5, <2>1, <2>2, <2>3, <2>4
<1>12. ASSUME NEW p \in DOMAIN s, \A i \in DOMAIN l : f[i] # p PROVE Place(s, p) >= size
  <2>1. p # n
    BY <1>6, <1>8, <1>12
  <2>2. p \in DOMAIN items
    BY <1>1, <2>1 DEF n
  <2>3. Place(items, p) >= size
    BY <1>4, <1>7, <1>8, <1>12, <2>2
  <2>4. Place(s, p) >= Place(items, p) /\ Place(s, p) \in Int /\ Place(items, p) \in Int
    <3>1. Place(s, p) >= Place(items, p)
      BY <1>3, <2>2
    <3>2. s \in Seq(Items) /\ p \in DOMAIN s
      BY <1>1
    <3>3. Len(s) \in Nat /\ Place(s, p) \in 0 .. Len(s) - 1
      BY <3>2, Places, Listed
    <3>4. Len(items) \in Nat /\ Place(items, p) \in 0 .. Len(items) - 1
      BY <2>2, Places, Listed
    <3> QED
      BY <3>1, <3>3, <3>4
  <2> QED
    BY <2>3, <2>4
<1> QED
  BY <1>9, <1>10, <1>11, <1>12 DEF Kept, l, s

\* A top that has enough that are as good, and does not keep the new one.
LEMMA KeptRefused ==
  ASSUME NEW list \in Seq(Items), NEW items \in Seq(Items), NEW size \in Nat, NEW e,
         Kept(list, items, size, e), NEW x \in Items,
         size <= Len(list), \A i \in 1 .. size : list[i].score >= x.score
  PROVE  Kept(list, Append(items, x), size, e)
<1> DEFINE s == Append(items, x)
           n == Len(items) + 1
<1>1. /\ s \in Seq(Items) /\ DOMAIN s = 1 .. n
      /\ DOMAIN list = 1 .. Len(list) /\ DOMAIN items = 1 .. Len(items)
      /\ Len(list) \in Nat /\ Len(items) \in Nat
      /\ \A i \in DOMAIN items : i \in DOMAIN s /\ s[i] = items[i]
  BY OneMore, Listed
<1>2. /\ \A i, k \in DOMAIN items : Before(s, i, k) <=> Before(items, i, k)
      /\ \A i \in DOMAIN items : Before(s, i, n) <=> items[i].score >= x.score
      /\ \A k \in DOMAIN items : Place(s, k) >= Place(items, k)
  BY OneMore
<1> HIDE DEF s
<1>3. e \in [DOMAIN list -> DOMAIN s] /\ \A i \in DOMAIN list : list[i] = s[e[i]]
  BY <1>1 DEF Kept
<1>4. \A i, k \in DOMAIN list : Before(list, i, k) <=> Before(s, e[i], e[k])
  BY <1>2 DEF Kept
<1>5. Place(s, n) >= size
  <2> DEFINE g == [i \in 1 .. size |-> e[i]]
  <2>1. n \in DOMAIN s /\ \A i \in 1 .. size : i \in DOMAIN list
    BY <1>1
  <2>2. \A i \in 1 .. size : e[i] \in Ahead(s, n)
    <3> TAKE i \in 1 .. size
    <3>1. e[i] \in DOMAIN items /\ items[e[i]].score >= x.score
      BY <2>1 DEF Kept
    <3> QED
      BY <1>1, <1>2, <3>1 DEF Ahead
  <2>3. g \in Injection(1 .. size, Ahead(s, n))
    <3>1. \A i, j \in 1 .. size : e[i] = e[j] => i = j
      BY <2>1, KeptOnce
    <3> QED
      BY <2>2, <3>1 DEF Injection, IsInjective
  <2>4. IsFiniteSet(Ahead(s, n))
    BY <1>1, <2>1, Places
  <2> HIDE DEF g
  <2>5. Cardinality(1 .. size) <= Cardinality(Ahead(s, n))
    BY <2>3, <2>4, FS_Injection
  <2>6. Cardinality(1 .. size) = size
    BY FS_Interval
  <2>7. Cardinality(Ahead(s, n)) \in Nat
    BY <2>4, FS_CardinalityType
  <2> QED
    BY <2>5, <2>6, <2>7 DEF Place
<1>6. ASSUME NEW p \in DOMAIN s, \A i \in DOMAIN list : e[i] # p PROVE Place(s, p) >= size
  <2>1. CASE p = n
    BY <1>5, <2>1
  <2>2. CASE p # n
    <3>1. p \in DOMAIN items
      BY <1>1, <2>2
    <3>2. Place(items, p) >= size
      BY <1>6, <3>1 DEF Kept
    <3>3. Place(s, p) >= Place(items, p) /\ Place(s, p) \in Int /\ Place(items, p) \in Int
      BY <1>1, <1>2, <3>1, Places, Listed
    <3> QED
      BY <3>2, <3>3
  <2> QED
    BY <2>1, <2>2
<1> QED
  BY <1>3, <1>4, <1>6 DEF Kept, s

\* A sorted list has the greatest scores first.
LEMMA SortedScores ==
  ASSUME NEW items \in Seq(Items), NEW r \in 1 .. Len(items), NEW q \in 1 .. Len(items), r <= q
  PROVE  Sort(items)[r].score >= Sort(items)[q].score
<1>1. /\ Taker(items, r) \in DOMAIN items /\ Sort(items)[r] = items[Taker(items, r)]
      /\ Taker(items, q) \in DOMAIN items /\ Sort(items)[q] = items[Taker(items, q)]
      /\ Before(items, Taker(items, r), Taker(items, q)) <=> r < q
  BY Takers
<1>2. r = q \/ r < q
  BY Listed
<1>3. items[Taker(items, r)].score \in Int /\ items[Taker(items, q)].score \in Int
  BY <1>1, Listed
<1>4. CASE r = q
  BY <1>1, <1>3, <1>4
<1>5. CASE r < q
  BY <1>1, <1>3, <1>5 DEF Before
<1> QED
  BY <1>2, <1>4, <1>5

\* A top that throws away all but the size best of those it has.
LEMMA KeptCut ==
  ASSUME NEW list \in Seq(Items), NEW items \in Seq(Items), NEW size \in Nat, NEW e,
         Kept(list, items, size, e)
  PROVE  \E f : Kept(Cut(Sort(list), size), items, size, f)
<1> DEFINE sorted == Sort(list)
           l == Cut(sorted, size)
           f == [r \in DOMAIN l |-> e[Taker(list, r)]]
<1>1. /\ sorted \in Seq(Items) /\ Len(sorted) = Len(list) /\ Len(list) \in Nat
      /\ DOMAIN list = 1 .. Len(list)
      /\ \A r \in 1 .. Len(list) : /\ Taker(list, r) \in DOMAIN list
                                   /\ sorted[r] = list[Taker(list, r)]
      /\ \A r, q \in 1 .. Len(list) : Before(list, Taker(list, r), Taker(list, q)) <=> r < q
      /\ \A r, q \in 1 .. Len(list) : r <= q => sorted[r].score >= sorted[q].score
      /\ \A k \in DOMAIN list : /\ Place(list, k) + 1 \in 1 .. Len(list)
                                /\ Taker(list, Place(list, k) + 1) = k
  BY Takers, Listed, SortedScores
<1> HIDE DEF sorted
<1>2. /\ l \in Seq(Items) /\ Len(l) = IF size <= Len(list) THEN size ELSE Len(list)
      /\ \A r \in 1 .. Len(l) : r \in 1 .. Len(list) /\ l[r] = sorted[r]
  <2>1. /\ l \in Seq(Items) /\ Len(l) = IF size <= Len(sorted) THEN size ELSE Len(sorted)
        /\ \A r \in 1 .. Len(l) : r \in 1 .. Len(sorted) /\ l[r] = sorted[r]
    BY <1>1, Cutting
  <2> QED
    BY <1>1, <2>1
<1> HIDE DEF l
<1>3. DOMAIN l = 1 .. Len(l) /\ Len(l) \in Nat /\ \A r \in DOMAIN l : l[r].score \in Int
  BY <1>2, Listed
<1>4. f \in [DOMAIN l -> DOMAIN items] /\ \A r \in DOMAIN l : l[r] = items[f[r]]
  BY <1>1, <1>2, <1>3 DEF Kept
<1>5. ASSUME NEW r \in DOMAIN l, NEW q \in DOMAIN l PROVE Before(l, r, q) <=> Before(items, f[r], f[q])
  <2>1. r \in 1 .. Len(list) /\ q \in 1 .. Len(list) /\ r \in Nat /\ q \in Nat
    <3>1. r \in 1 .. Len(l) /\ q \in 1 .. Len(l) /\ Len(l) \in Nat
      BY <1>3
    <3>2. r \in 1 .. Len(list) /\ q \in 1 .. Len(list)
      BY <1>2, <3>1, Zenon
    <3> QED
      BY <3>1, <3>2
  <2>2. Before(items, f[r], f[q]) <=> r < q
    BY <1>1, <2>1 DEF Kept
  <2>3. Before(l, r, q) <=> r < q
    <3>1. l[r] = sorted[r] /\ l[q] = sorted[q] /\ l[r].score \in Int /\ l[q].score \in Int
      BY <1>2, <1>3
    <3>2. r <= q => sorted[r].score >= sorted[q].score
      BY <1>1, <2>1
    <3>3. q <= r => sorted[q].score >= sorted[r].score
      BY <1>1, <2>1
    <3> QED
      BY <2>1, <3>1, <3>2, <3>3 DEF Before
  <2> QED
    BY <2>2, <2>3
<1>6. ASSUME NEW p \in DOMAIN items, \A r \in DOMAIN l : f[r] # p PROVE Place(items, p) >= size
  <2>1. CASE \A i \in DOMAIN list : e[i] # p
    BY <2>1 DEF Kept
  <2>2. ASSUME NEW k \in DOMAIN list, e[k] = p PROVE Place(items, p) >= size
    <3>1. Place(list, k) + 1 \in 1 .. Len(list) /\ Taker(list, Place(list, k) + 1) = k
      BY <1>1
    <3>2. Place(list, k) + 1 \notin DOMAIN l
      BY <1>6, <2>2, <3>1
    <3>3. Place(list, k) \in Int /\ Place(items, p) \in Int
      <4>1. p \in DOMAIN items
        OBVIOUS
      <4> QED
        BY <4>1, Places, Listed
    <3>4. Place(list, k) >= size
      BY <1>1, <1>2, <1>3, <3>1, <3>2, <3>3
    <3>5. Place(list, k) <= Place(items, p)
      BY <2>2, KeptPlaces
    <3> QED
      BY <3>3, <3>4, <3>5
  <2> QED
    BY <2>1, <2>2
<1> HIDE DEF f
<1> QED
  BY <1>4, <1>5, <1>6 DEF Kept, l, sorted

-----------------------------------------------------------------------------
\* A top, and what it has to do with the users it saw.
TopOf == [list : Seq(Items), size : Nat, worse : Int, defined : BOOLEAN, count : Nat]

TopKept(t, seen) ==
  /\ t \in TopOf
  /\ \E e : Kept(t.list, seen, t.size, e)
  /\ t.count = Len(seen)
  /\ t.defined => t.size <= Len(t.list) /\ \A i \in 1 .. t.size : t.list[i].score >= t.worse

\* A new top has seen nobody.
LEMMA TopNew ==
  ASSUME NEW size \in Nat
  PROVE  TopKept(NewTop(size), <<>>) /\ NewTop(size).size = size
<1>1. <<>> \in Seq(Items) /\ Len(<<>>) = 0
  BY EmptySeq
<1>2. NewTop(size) \in TopOf
  BY <1>1 DEF NewTop, TopOf, None
<1>3. DOMAIN <<>> = {}
  OBVIOUS
<1>4. Kept(<<>>, <<>>, size, [i \in {} |-> i])
  BY <1>3 DEF Kept
<1> QED
  BY <1>1, <1>2, <1>4 DEF TopKept, NewTop

\* Top::normalize keeps the size best, in order.
LEMMA TopNormal ==
  ASSUME NEW t \in TopOf, NEW items \in Seq(Items), NEW e, Kept(t.list, items, t.size, e),
         NEW n \in Normalize(t), Scores \subseteq Int
  PROVE  /\ n \in TopOf /\ n.size = t.size /\ n.count = t.count
         /\ n.list = Cut(Sort(t.list), t.size) /\ n.list = Cut(Sort(items), t.size)
         /\ \E f : Kept(n.list, items, n.size, f)
         /\ Len(t.list) >= t.size =>
              t.size <= Len(n.list) /\ \A i \in 1 .. t.size : n.list[i].score >= n.worse
<1> DEFINE l == Cut(Sort(t.list), t.size)
<1>1. /\ t.list \in Seq(Items) /\ t.size \in Nat
      /\ Sort(t.list) \in Seq(Items) /\ Len(Sort(t.list)) = Len(t.list) /\ Len(t.list) \in Nat
  BY Takers, Listed DEF TopOf
<1>2. /\ l \in Seq(Items) /\ Len(l) = IF t.size <= Len(t.list) THEN t.size ELSE Len(t.list)
      /\ \A r \in 1 .. Len(l) : r \in 1 .. Len(t.list) /\ l[r] = Sort(t.list)[r]
  <2>1. /\ l \in Seq(Items)
        /\ Len(l) = IF t.size <= Len(Sort(t.list)) THEN t.size ELSE Len(Sort(t.list))
        /\ \A r \in 1 .. Len(l) : r \in 1 .. Len(Sort(t.list)) /\ l[r] = Sort(t.list)[r]
    BY <1>1, Cutting
  <2> QED
    BY <1>1, <2>1
<1>3. l = Cut(Sort(items), t.size)
  BY <1>1, KeptBest
<1>4. \E f : Kept(l, items, t.size, f)
  BY <1>1, KeptCut
<1>5. PICK s \in (IF l = <<>> THEN Scores ELSE {Last(l).score}) :
        n = [t EXCEPT !.list = l, !.defined = TRUE, !.worse = s]
  BY DEF Normalize
<1> HIDE DEF l
<1>6. l # <<>> => Len(l) \in 1 .. Len(l) /\ l[Len(l)].score \in Int
  <2> SUFFICES ASSUME l # <<>> PROVE Len(l) \in 1 .. Len(l) /\ l[Len(l)].score \in Int
    OBVIOUS
  <2>1. Len(l) \in Nat \ {0}
    BY <1>2, EmptySeq
  <2>2. Len(l) \in 1 .. Len(l) /\ Len(l) \in DOMAIN l
    BY <1>2, <2>1, Listed
  <2> QED
    BY <1>2, <2>2, Listed
<1>7. s \in Int
  BY <1>5, <1>6 DEF Last
<1>8. /\ n \in TopOf /\ n.size = t.size /\ n.count = t.count /\ n.list = l /\ n.worse = s
  BY <1>2, <1>5, <1>7 DEF TopOf
<1>9. ASSUME Len(t.list) >= t.size
      PROVE  t.size <= Len(l) /\ \A i \in 1 .. t.size : l[i].score >= s
  <2>1. Len(l) = t.size
    BY <1>1, <1>2, <1>9
  <2>2. ASSUME NEW i \in 1 .. t.size PROVE l[i].score >= s
    <3>1. l # <<>>
      BY <1>1, <2>1, <2>2, EmptySeq
    <3>2. s = l[Len(l)].score /\ Len(l) \in 1 .. Len(l)
      BY <1>5, <1>6, <3>1 DEF Last
    <3>3. i \in 1 .. Len(l) /\ i <= Len(l)
      BY <1>1, <2>1
    <3>4. i \in 1 .. Len(t.list) /\ Len(l) \in 1 .. Len(t.list)
      BY <1>2, <3>2, <3>3
    <3>5. Sort(t.list)[i].score >= Sort(t.list)[Len(l)].score
      BY <1>1, <3>3, <3>4, SortedScores
    <3>6. l[i] = Sort(t.list)[i] /\ l[Len(l)] = Sort(t.list)[Len(l)]
      BY <1>2, <3>2, <3>3
    <3> QED
      BY <3>2, <3>5, <3>6
  <2> QED
    BY <1>1, <2>1, <2>2
<1>10. n.list = Cut(Sort(t.list), t.size)
  BY <1>8 DEF l
<1>11. n.list = Cut(Sort(items), t.size)
  BY <1>3, <1>8
<1>12. \E f : Kept(n.list, items, n.size, f)
  BY <1>4, <1>8
<1> QED
  BY <1>8, <1>9, <1>10, <1>11, <1>12

\* Top::add: the user is counted, and kept unless enough are as good.
LEMMA TopAdds ==
  ASSUME NEW t, NEW seen \in Seq(Items), TopKept(t, seen), NEW u \in UserIds, NEW s \in Int,
         NEW n \in TopAdd(t, u, s), Scores \subseteq Int
  PROVE  TopKept(n, Append(seen, Item(u, s))) /\ n.size = t.size
<1> DEFINE x == Item(u, s)
           counted == [t EXCEPT !.count = @ + 1]
           added == [counted EXCEPT !.list = Append(@, x)]
<1>1. x \in Items /\ x.score = s
  BY DEF Item, Items
<1>2. /\ t \in TopOf /\ t.list \in Seq(Items) /\ t.size \in Nat /\ t.count = Len(seen)
      /\ t.defined \in BOOLEAN /\ t.worse \in Int /\ Len(t.list) \in Nat /\ Len(seen) \in Nat
      /\ t.defined => t.size <= Len(t.list) /\ \A i \in 1 .. t.size : t.list[i].score >= t.worse
  BY Listed DEF TopKept, TopOf
<1>3. PICK e : Kept(t.list, seen, t.size, e)
  BY DEF TopKept
<1> HIDE DEF x
<1>4. /\ Append(seen, x) \in Seq(Items) /\ Len(Append(seen, x)) = Len(seen) + 1
      /\ Append(t.list, x) \in Seq(Items) /\ Len(Append(t.list, x)) = Len(t.list) + 1
      /\ \A i \in 1 .. Len(t.list) : Append(t.list, x)[i] = t.list[i]
  BY <1>1, <1>2, AppendProperties
<1>5. /\ counted \in TopOf /\ counted.list = t.list /\ counted.size = t.size
      /\ counted.count = t.count + 1 /\ counted.defined = t.defined /\ counted.worse = t.worse
  BY <1>2 DEF TopOf
<1>6. /\ added \in TopOf /\ added.list = Append(t.list, x) /\ added.size = t.size
      /\ added.count = t.count + 1 /\ added.defined = t.defined /\ added.worse = t.worse
  <2> HIDE DEF counted
  <2>1. Append(counted.list, x) \in Seq(Items)
    BY <1>4, <1>5
  <2>2. added = [counted EXCEPT !.list = Append(counted.list, x)]
    BY <1>5 DEF TopOf
  <2> QED
    BY <1>4, <1>5, <2>1, <2>2 DEF TopOf
<1>7. PICK f : Kept(Append(t.list, x), Append(seen, x), t.size, f)
  BY <1>1, <1>2, <1>3, KeptNew
<1>8. CASE t.defined /\ s <= t.worse /\ n = counted
  <2>1. t.size <= Len(t.list) /\ \A i \in 1 .. t.size : t.list[i].score >= x.score
    <3>1. ASSUME NEW i \in 1 .. t.size PROVE t.list[i].score >= x.score
      <4>1. i \in DOMAIN t.list
        BY <1>2, <1>8, Listed
      <4>2. t.list[i].score \in Int /\ t.list[i].score >= t.worse
        BY <1>2, <1>8, <4>1, Listed
      <4> QED
        BY <1>1, <1>2, <1>8, <4>2
    <3> QED
      BY <1>2, <1>8, <3>1
  <2>2. Kept(t.list, Append(seen, x), t.size, e)
    BY <1>1, <1>2, <1>3, <2>1, KeptRefused
  <2> QED
    BY <1>2, <1>4, <1>5, <1>8, <2>2 DEF TopKept, x
<1>9. CASE n = added
  <2>1. t.defined => /\ t.size <= Len(Append(t.list, x))
                     /\ \A i \in 1 .. t.size : Append(t.list, x)[i].score >= t.worse
    BY <1>2, <1>4
  <2> QED
    BY <1>2, <1>4, <1>6, <1>7, <1>9, <2>1 DEF TopKept, x
<1>10. CASE Len(added.list) > 2 * t.size /\ n \in Normalize(added)
  <2> HIDE DEF added
  <2>1. Kept(added.list, Append(seen, x), added.size, f)
    BY <1>6, <1>7
  <2>2. Len(added.list) >= added.size
    <3>1. Len(added.list) \in Nat
      BY <1>2, <1>4, <1>6
    <3> QED
      BY <1>2, <1>6, <1>10, <3>1
  <2>3. /\ n \in TopOf /\ n.size = added.size /\ n.count = added.count
        /\ \E g : Kept(n.list, Append(seen, x), n.size, g)
        /\ added.size <= Len(n.list) /\ \A i \in 1 .. added.size : n.list[i].score >= n.worse
    BY <1>4, <1>6, <1>10, <2>1, <2>2, TopNormal
  <2> QED
    BY <1>2, <1>4, <1>6, <2>3 DEF TopKept, x
<1>11. \/ t.defined /\ s <= t.worse /\ n = counted
       \/ Len(added.list) > 2 * t.size /\ n \in Normalize(added)
       \/ n = added
  BY DEF TopAdd, x
<1> QED
  BY <1>8, <1>9, <1>10, <1>11

\* inverse_scores keeps the list a list of items, of the same length.
LEMMA Inversed ==
  ASSUME NEW items \in Seq(Items)
  PROVE  Inverse_scores(items) \in Seq(Items)
<1>1. Len(items) \in Nat /\ DOMAIN items = 1 .. Len(items)
      /\ \A i \in DOMAIN items : items[i] \in Items
  BY Listed
<1>2. \A i \in 1 .. Len(items) : Item(items[i].user, -items[i].score) \in Items
  BY <1>1 DEF Item, Items
<1>3. [i \in 1 .. Len(items) |-> Item(items[i].user, -items[i].score)] \in Seq(Items)
  BY <1>1, <1>2, IsASeq
<1> QED
  BY <1>1, <1>3 DEF Inverse_scores

\* Top::finalize: the best of those seen, in order.
LEMMA TopEnds ==
  ASSUME NEW t, NEW seen \in Seq(Items), TopKept(t, seen), NEW inversed \in BOOLEAN,
         NEW n \in Finalize(t, inversed), Scores \subseteq Int
  PROVE  /\ n \in TopOf /\ n.count = Len(seen)
         /\ n.list = IF inversed THEN Inverse_scores(Cut(Sort(seen), n.size))
                     ELSE Cut(Sort(seen), n.size)
<1>1. PICK m \in Normalize(t) :
        n = [m EXCEPT !.list = IF inversed THEN Inverse_scores(m.list) ELSE m.list]
  BY DEF Finalize
<1>2. PICK e : Kept(t.list, seen, t.size, e)
  BY DEF TopKept
<1>3. t \in TopOf /\ t.count = Len(seen)
  BY DEF TopKept
<1>4. m \in TopOf /\ m.size = t.size /\ m.count = t.count /\ m.list = Cut(Sort(seen), t.size)
  BY <1>1, <1>2, <1>3, TopNormal
<1>5. m.list \in Seq(Items) /\ Inverse_scores(m.list) \in Seq(Items)
  BY <1>4, Inversed DEF TopOf
<1>6. n \in TopOf /\ n.size = m.size /\ n.count = m.count
      /\ n.list = IF inversed THEN Inverse_scores(m.list) ELSE m.list
  BY <1>1, <1>4, <1>5 DEF TopOf
<1> QED
  BY <1>3, <1>4, <1>6

-----------------------------------------------------------------------------
\* The jobs of the threads, with what each step of them may rely on.

Rankings == SUBSET Contexts

TopJobs ==
  [do : {"top"}, at : {"vector", "visit", "answer"}, filter : Rankings, inversed : BOOLEAN,
   next : Nat \ {0}, seen : Seq(Items), top : TopOf]

RankJobs ==
  [do : {"rank"}, at : {"lock", "vector", "visit", "unlock", "answer"}, contest : Nat,
   filter : Rankings, inversed : BOOLEAN, next : Nat \ {0}, seen : Seq(Items)]

Rows == [shown : BOOLEAN, item : Items]

GetJobs ==
  [do : {"get"}, at : {"lock", "emit", "unlock", "answer"}, contest : Nat, from : Nat,
   limit : Nat, next : Nat, out : Seq(Rows), whole : Seq(Items)]

FindJobs(p) ==
  [do : {"find"}, at : {"lock", "unlock", "answer"}, contest : Nat, user : UserIds, position : {p}]

ClearJobs == [do : {"clear"}, at : {"lock", "unlock", "answer"}, contest : Nat]

\* What the heap lists.
ContestRecords == [list : Seq(Items), owner : Workers \cup {Nobody}, alive : BOOLEAN, whole : Seq(Items)]

\* A top keeps the best of those it saw, until its answer is these.
TopJob(j) ==
  /\ j \in TopJobs
  /\ j.at # "answer" => TopKept(j.top, j.seen)
  /\ j.at = "answer" =>
       /\ j.top.count = Len(j.seen)
       /\ j.top.list = IF j.inversed THEN Inverse_scores(Cut(Sort(j.seen), j.top.size))
                       ELSE Cut(Sort(j.seen), j.top.size)

\* A generate holds the contest from its lock on, and what is in the contest
\* is what it saw, until it is whole.
RankJob(h, j, w) ==
  /\ j \in RankJobs /\ j.contest \in DOMAIN h
  /\ j.at = "lock" => j.seen = <<>>
  /\ j.at \in {"vector", "visit", "unlock"} => h[j.contest].owner = w
  /\ j.at \in {"vector", "visit"} => h[j.contest].list = j.seen
  /\ j.at = "unlock" => h[j.contest].list = h[j.contest].whole

\* A get holds the contest while it reads it, and has read the places from
\* from up to next.
GetJob(h, j, w) ==
  /\ j \in GetJobs /\ j.contest \in DOMAIN h
  /\ j.next = j.from + 1 + Len(j.out)
  /\ j.at = "lock" => j.out = <<>>
  /\ j.at \in {"emit", "unlock"} => /\ h[j.contest].owner = w
                                    /\ h[j.contest].list = j.whole
                                    /\ h[j.contest].list = h[j.contest].whole
  /\ \A k \in DOMAIN j.out : /\ j.from + k \in DOMAIN j.whole /\ j.from + k <= j.from + j.limit
                             /\ j.out[k].item = j.whole[j.from + k]
  /\ j.at \in {"unlock", "answer"} => j.next > Min({Len(j.whole), j.from + j.limit})

\* A find or a clear has little to rely on.
BriefJob(h, j, w) ==
  /\ j \in ClearJobs \/ \E p : j \in FindJobs(p)
  /\ j.contest \in DOMAIN h
  /\ j.at = "unlock" => h[j.contest].owner = w /\ h[j.contest].list = h[j.contest].whole

\* A thread is idle, or at one of its jobs.
Works(h, j, w) ==
  j = Idle \/ TopJob(j) \/ RankJob(h, j, w) \/ GetJob(h, j, w) \/ BriefJob(h, j, w)

\* What a change of the contests leaves to a thread that holds none of those changed.
LEMMA OthersWork ==
  ASSUME NEW h \in Seq(ContestRecords), NEW g \in Seq(ContestRecords), NEW j, NEW w, Works(h, j, w),
         DOMAIN h \subseteq DOMAIN g,
         \A c \in DOMAIN h : h[c].owner = w =>
           g[c].owner = w /\ g[c].list = h[c].list /\ g[c].whole = h[c].whole
  PROVE  Works(g, j, w)
<1>1. CASE j = Idle \/ TopJob(j)
  BY <1>1 DEF Works
<1>2. CASE RankJob(h, j, w)
  <2>1. RankJob(g, j, w)
    BY <1>2 DEF RankJob
  <2> QED
    BY <2>1 DEF Works
<1>3. CASE GetJob(h, j, w)
  <2>1. GetJob(g, j, w)
    BY <1>3 DEF GetJob
  <2> QED
    BY <2>1 DEF Works
<1>4. CASE BriefJob(h, j, w)
  <2>1. BriefJob(g, j, w)
    BY <1>4 DEF BriefJob
  <2> QED
    BY <2>1 DEF Works
<1> QED
  BY <1>1, <1>2, <1>3, <1>4 DEF Works

\* The job tells its kind.
LEMMA Kinds ==
  ASSUME NEW h, NEW j, NEW w, Works(h, j, w)
  PROVE  /\ j.do = "top" => TopJob(j)
         /\ j.do = "rank" => RankJob(h, j, w)
         /\ j.do = "get" => GetJob(h, j, w)
         /\ j.do \in {"find", "clear"} => BriefJob(h, j, w)
         /\ j.do = "find" => \E p : j \in FindJobs(p)
         /\ j.do = "clear" => j \in ClearJobs
         /\ j # Idle => j.do \in {"top", "rank", "get", "find", "clear"}
<1>1. TopJob(j) => j.do = "top"
  BY DEF TopJob, TopJobs
<1>2. RankJob(h, j, w) => j.do = "rank"
  BY DEF RankJob, RankJobs
<1>3. GetJob(h, j, w) => j.do = "get"
  BY DEF GetJob, GetJobs
<1>4. BriefJob(h, j, w) => \/ j.do = "find" /\ \E p : j \in FindJobs(p)
                           \/ j.do = "clear" /\ j \in ClearJobs
  BY DEF BriefJob, FindJobs, ClearJobs
<1>5. j = Idle => j.do = "nothing"
  BY DEF Idle
<1> QED
  BY <1>1, <1>2, <1>3, <1>4, <1>5 DEF Works

\* One contest of the heap changes.
LEMMA HeapAt ==
  ASSUME NEW h \in Seq(ContestRecords), NEW c \in DOMAIN h, NEW e \in ContestRecords
  PROVE  /\ [h EXCEPT ![c] = e] \in Seq(ContestRecords)
         /\ Len([h EXCEPT ![c] = e]) = Len(h) /\ DOMAIN [h EXCEPT ![c] = e] = DOMAIN h
         /\ \A d \in DOMAIN h : [h EXCEPT ![c] = e][d] = IF d = c THEN e ELSE h[d]
<1>1. c \in 1 .. Len(h) /\ DOMAIN h = 1 .. Len(h)
  BY LenProperties
<1> QED
  BY <1>1, ExceptSeq

-----------------------------------------------------------------------------
\* The state of the rankings: the values of each variable.
RTyped ==
  /\ score \in [UserIds -> Scores] /\ group \in [UserIds -> Groups]
  /\ deleted \in [UserIds -> BOOLEAN]
  /\ heap \in Seq(ContestRecords)
  /\ contests \in [Names -> 0 .. Len(heap)]
  /\ job = [w \in Workers |-> job[w]]
  /\ vector \in Workers \cup {Nobody}
  /\ wild \in BOOLEAN

\* A name stands for a contest that is not freed, and for one of its own.
Named ==
  /\ \A n \in Names : contests[n] # None => heap[contests[n]].alive
  /\ \A m, n \in Names : contests[m] # None /\ contests[m] = contests[n] => m = n

\* A contest that nobody holds is whole.
Quiet == \A c \in DOMAIN heap : heap[c].owner = Nobody => heap[c].list = heap[c].whole

Working == \A w \in Workers : Works(heap, job[w], w)

RInv == RTyped /\ Named /\ Quiet /\ Working

\* No thread works and no contest is there when the server starts.
LEMMA Starting == RankingInit => RInv
<1> SUFFICES ASSUME RankingInit PROVE RInv
  OBVIOUS
<1> USE DEF RankingInit
<1>1. heap = <<>> /\ heap \in Seq(ContestRecords) /\ Len(heap) = 0 /\ DOMAIN heap = {}
  BY EmptySeq
<1>2. RTyped
  <2>1. score \in [UserIds -> Scores] /\ group \in [UserIds -> Groups]
    BY RankingAssumption
  <2>2. contests \in [Names -> 0 .. Len(heap)]
    BY <1>1 DEF None
  <2>3. deleted \in [UserIds -> BOOLEAN] /\ job = [w \in Workers |-> job[w]]
    OBVIOUS
  <2>4. vector \in Workers \cup {Nobody} /\ wild \in BOOLEAN
    OBVIOUS
  <2> QED
    BY <1>1, <2>1, <2>2, <2>3, <2>4 DEF RTyped
<1>3. Named
  BY DEF Named, None
<1>4. Quiet
  BY <1>1 DEF Quiet
<1>5. Working
  BY DEF Working, Works
<1> QED
  BY <1>2, <1>3, <1>4, <1>5 DEF RInv

\* A step of a thread that touches no contest another thread holds.
LEMMA ThreadKeeps ==
  ASSUME RInv, NEW w \in Workers, NEW j, Goes(w, j), Works(heap', j, w),
         heap' \in Seq(ContestRecords), Len(heap') = Len(heap),
         \A c \in DOMAIN heap :
           /\ heap'[c].alive = heap[c].alive
           /\ heap[c].owner \notin {w, Nobody} => heap'[c] = heap[c]
           /\ heap'[c].owner = Nobody => heap'[c].list = heap'[c].whole,
         vector' \in Workers \cup {Nobody}, wild' \in BOOLEAN
  PROVE  RInv'
<1> USE DEF RInv
<1>1. DOMAIN heap = 1 .. Len(heap) /\ DOMAIN heap' = 1 .. Len(heap) /\ Len(heap) \in Nat
  BY LenProperties DEF RTyped
<1>2. job' = [v \in Workers |-> IF v = w THEN j ELSE job[v]] /\ UNCHANGED <<score, group, deleted, contests>>
  BY DEF Goes, RTyped, userVars
<1>3. RTyped'
  BY <1>2 DEF RTyped
<1>4. Named'
  <2>1. \A n \in Names : contests[n] # None => contests[n] \in DOMAIN heap
    BY <1>1 DEF RTyped, None
  <2> QED
    BY <1>2, <2>1 DEF Named
<1>5. Quiet'
  BY <1>1 DEF Quiet
<1>6. Working'
  <2> SUFFICES ASSUME NEW v \in Workers PROVE Works(heap', job'[v], v)
    BY DEF Working
  <2>1. CASE v = w
    BY <1>2, <2>1
  <2>2. CASE v # w
    <3>1. Works(heap, job[v], v) /\ job'[v] = job[v] /\ v # Nobody
      BY <1>2, <2>2, RankingAssumption DEF Working
    <3>2. \A c \in DOMAIN heap : heap[c].owner = v => heap'[c] = heap[c]
      BY <2>2, <3>1
    <3> QED
      BY <1>1, <3>1, <3>2, OthersWork DEF RTyped
  <2> QED
    BY <2>1, <2>2
<1> QED
  BY <1>3, <1>4, <1>5, <1>6

\* ... and none at all.
LEMMA ThreadPasses ==
  ASSUME RInv, NEW w \in Workers, NEW j, Goes(w, j), Works(heap, j, w), heap' = heap,
         vector' \in Workers \cup {Nobody}, wild' \in BOOLEAN
  PROVE  RInv'
<1>1. heap' \in Seq(ContestRecords) /\ Len(heap') = Len(heap) /\ Works(heap', j, w)
  BY DEF RInv, RTyped
<1>2. \A c \in DOMAIN heap :
        /\ heap'[c].alive = heap[c].alive
        /\ heap[c].owner \notin {w, Nobody} => heap'[c] = heap[c]
        /\ heap'[c].owner = Nobody => heap'[c].list = heap'[c].whole
  BY DEF RInv, Quiet
<1> QED
  BY <1>1, <1>2, ThreadKeeps

\* ... and one, which it or nobody holds.
LEMMA ThreadTouches ==
  ASSUME RInv, NEW w \in Workers, NEW j, Goes(w, j), Works(heap', j, w),
         NEW c \in DOMAIN heap, heap[c].owner \in {w, Nobody}, NEW e \in ContestRecords,
         heap' = [heap EXCEPT ![c] = e], e.alive = heap[c].alive,
         e.owner = Nobody => e.list = e.whole,
         vector' \in Workers \cup {Nobody}, wild' \in BOOLEAN
  PROVE  RInv'
<1>1. /\ heap' \in Seq(ContestRecords) /\ Len(heap') = Len(heap)
      /\ \A d \in DOMAIN heap : heap'[d] = IF d = c THEN e ELSE heap[d]
  BY HeapAt DEF RInv, RTyped
<1>2. \A d \in DOMAIN heap :
        /\ heap'[d].alive = heap[d].alive
        /\ heap[d].owner \notin {w, Nobody} => heap'[d] = heap[d]
        /\ heap'[d].owner = Nobody => heap'[d].list = heap'[d].whole
  BY <1>1 DEF RInv, Quiet
<1> QED
  BY <1>1, <1>2, ThreadKeeps

\* Contest::lock: a thread that nobody is in the way of.
LEMMA LockSteps ==
  ASSUME RInv, NEW w \in Workers, LockContest(w)
  PROVE  RInv'
<1> DEFINE j == job[w]
           c == j.contest
           fresh == j.do \in {"rank", "clear"}
           list == IF fresh THEN <<>> ELSE heap[c].list
           e == [heap[c] EXCEPT !.owner = w, !.list = list,
                   !.whole = IF fresh THEN <<>> ELSE @]
<1>1. /\ Works(heap, j, w) /\ heap \in Seq(ContestRecords) /\ w # Nobody
      /\ j.do \in {"rank", "get", "find", "clear"} /\ j.at = "lock"
      /\ heap[c].owner = Nobody /\ vector' = vector
      /\ wild' = (wild \/ ~heap[c].alive)
  BY RankingAssumption DEF LockContest, Unlocked, Uses, RInv, RTyped, Working
<1>2. c \in DOMAIN heap
  BY <1>1, Kinds DEF RankJob, GetJob, BriefJob
<1>3. heap[c] \in ContestRecords /\ heap[c].list = heap[c].whole
  BY <1>1, <1>2, LenProperties DEF RInv, Quiet
<1>4. heap' = [heap EXCEPT ![c] = e]
  <2>1. heap' = [heap EXCEPT ![c].owner = w, ![c].list = list,
                             ![c].whole = IF fresh THEN <<>> ELSE @]
    BY DEF LockContest
  <2> HIDE DEF list, fresh
  <2> QED
    BY <1>1, <1>2, <1>3, <2>1 DEF ContestRecords
<1>5. /\ e \in ContestRecords /\ e.alive = heap[c].alive /\ e.owner = w /\ e.list = list
      /\ e.list = e.whole
  BY <1>3, EmptySeq DEF ContestRecords
<1>6. /\ heap' \in Seq(ContestRecords) /\ DOMAIN heap' = DOMAIN heap /\ heap'[c] = e
  BY <1>1, <1>2, <1>4, <1>5, HeapAt
<1> HIDE DEF e
<1>7. vector' \in Workers \cup {Nobody} /\ wild' \in BOOLEAN
  BY <1>1 DEF RInv, RTyped
<1>8. ASSUME NEW n, Goes(w, n), Works(heap', n, w) PROVE RInv'
  BY <1>1, <1>2, <1>4, <1>5, <1>7, <1>8, ThreadTouches
<1>9. CASE j.do = "rank"
  <2> DEFINE n == [j EXCEPT !.at = "vector"]
  <2>1. Goes(w, n)
    BY <1>9 DEF LockContest
  <2>2. RankJob(heap, j, w)
    BY <1>1, <1>9, Kinds
  <2>3. RankJob(heap', n, w)
    BY <1>1, <1>2, <1>5, <1>6, <1>9, <2>2 DEF RankJob, RankJobs
  <2> QED
    BY <1>8, <2>1, <2>3 DEF Works
<1>10. CASE j.do = "get"
  <2> DEFINE n == [j EXCEPT !.at = "emit", !.whole = list]
  <2>1. Goes(w, n)
    BY <1>10 DEF LockContest
  <2>2. GetJob(heap, j, w)
    BY <1>1, <1>10, Kinds
  <2>3. list \in Seq(Items)
    BY <1>3, <1>10 DEF ContestRecords
  <2>4. n \in GetJobs
    BY <2>2, <2>3 DEF GetJob, GetJobs
  <2>5. DOMAIN n.out = {} /\ n.out = j.out /\ n.from = j.from /\ n.limit = j.limit
        /\ n.next = j.next
        /\ n.whole = list /\ n.contest = c /\ n.at = "emit"
    BY <1>1, <2>2 DEF GetJob, GetJobs
  <2> HIDE DEF n
  <2>6. GetJob(heap', n, w)
    BY <1>1, <1>2, <1>5, <1>6, <1>10, <2>2, <2>4, <2>5 DEF GetJob
  <2> QED
    BY <1>8, <2>1, <2>6 DEF Works, n
<1>11. CASE j.do = "find"
  <2> DEFINE p == SelectInSeq(list, LAMBDA i : i.user = j.user) - 1
             n == [j EXCEPT !.at = "unlock", !.position = p]
  <2>1. Goes(w, n)
    BY <1>11 DEF LockContest
  <2>2. BriefJob(heap, j, w) /\ \E q : j \in FindJobs(q)
    BY <1>1, <1>11, Kinds
  <2> HIDE DEF p
  <2>3. n \in FindJobs(p) /\ n.contest = c
    BY <2>2 DEF FindJobs
  <2>4. BriefJob(heap', n, w)
    BY <1>2, <1>5, <1>6, <2>3 DEF BriefJob
  <2> QED
    BY <1>8, <2>1, <2>4 DEF Works
<1>12. CASE j.do = "clear"
  <2> DEFINE n == [j EXCEPT !.at = "unlock"]
  <2>1. Goes(w, n)
    BY <1>12 DEF LockContest
  <2>2. j \in ClearJobs
    BY <1>1, <1>12, Kinds
  <2>3. n \in ClearJobs /\ n.contest = c
    BY <2>2 DEF ClearJobs
  <2>4. BriefJob(heap', n, w)
    BY <1>2, <1>5, <1>6, <2>3 DEF BriefJob
  <2> QED
    BY <1>8, <2>1, <2>4 DEF Works
<1> QED
  BY <1>1, <1>9, <1>10, <1>11, <1>12

\* The lock of the vector.
LEMMA VectorSteps ==
  ASSUME RInv, NEW w \in Workers, LockVector(w)
  PROVE  RInv'
<1> DEFINE j == job[w]
           n == [j EXCEPT !.at = "visit"]
<1>1. /\ Works(heap, j, w) /\ j.do \in {"top", "rank"} /\ j.at = "vector"
      /\ Goes(w, n) /\ heap' = heap /\ vector' \in Workers \cup {Nobody} /\ wild' \in BOOLEAN
  BY DEF LockVector, RInv, RTyped, Working
<1>2. CASE j.do = "top"
  <2>1. TopJob(j)
    BY <1>1, <1>2, Kinds
  <2>2. TopJob(n)
    BY <1>1, <2>1 DEF TopJob, TopJobs
  <2> QED
    BY <1>1, <2>2, ThreadPasses DEF Works
<1>3. CASE j.do = "rank"
  <2>1. RankJob(heap, j, w)
    BY <1>1, <1>3, Kinds
  <2>2. RankJob(heap, n, w)
    BY <1>1, <2>1 DEF RankJob, RankJobs
  <2> QED
    BY <1>1, <2>2, ThreadPasses DEF Works
<1> QED
  BY <1>1, <1>2, <1>3

\* A user that a top sees.
LEMMA VisitTopSteps ==
  ASSUME RInv, NEW w \in Workers, VisitTop(w)
  PROVE  RInv'
<1> DEFINE j == job[w]
           u == Walk[j.next]
           s == Oriented(score[u], j.inversed)
           n == [j EXCEPT !.next = @ + 1]
<1>1. /\ Works(heap, j, w) /\ j.do = "top" /\ j.at = "visit" /\ j.next <= Len(Walk)
      /\ heap' = heap /\ vector' \in Workers \cup {Nobody} /\ wild' \in BOOLEAN
  BY DEF VisitTop, At, RInv, RTyped, Working
<1>2. TopJob(j) /\ TopKept(j.top, j.seen) /\ j \in TopJobs
  BY <1>1, Kinds DEF TopJob
<1>3. n \in TopJobs /\ n.top = j.top /\ n.seen = j.seen /\ n.at = "visit"
  BY <1>1, <1>2 DEF TopJobs
<1>4. CASE Goes(w, n)
  <2>1. TopJob(n)
    BY <1>2, <1>3 DEF TopJob
  <2> QED
    BY <1>1, <1>4, <2>1, ThreadPasses DEF Works
<1>5. ASSUME NEW t \in TopAdd(j.top, u, s), Goes(w, [n EXCEPT !.top = t, !.seen = Append(n.seen, Item(u, s))])
      PROVE  RInv'
  <2> DEFINE m == [n EXCEPT !.top = t, !.seen = Append(n.seen, Item(u, s))]
  <2>1. u \in UserIds /\ s \in Int
    <3>1. j.next \in 1 .. Len(Walk)
      BY <1>1, <1>2, RankingAssumption, LenProperties DEF TopJobs
    <3>2. u \in UserIds
      BY <3>1, RankingAssumption, ElementOfSeq
    <3>3. score[u] \in Int
      BY <3>2, RankingAssumption DEF RInv, RTyped
    <3> QED
      BY <3>2, <3>3 DEF Oriented
  <2>2. TopKept(t, Append(j.seen, Item(u, s))) /\ t \in TopOf
    <3>1. j.seen \in Seq(Items) /\ Scores \subseteq Int
      BY <1>2, RankingAssumption DEF TopJobs
    <3>2. TopKept(t, Append(j.seen, Item(u, s)))
      BY <1>2, <1>5, <2>1, <3>1, TopAdds
    <3> QED
      BY <3>2 DEF TopKept
  <2>3. m \in TopJobs /\ m.top = t /\ m.seen = Append(j.seen, Item(u, s)) /\ m.at = "visit"
    <3>1. Append(j.seen, Item(u, s)) \in Seq(Items)
      BY <1>2, <2>1, AppendProperties DEF TopJobs, Item, Items
    <3> QED
      BY <1>3, <2>2, <3>1 DEF TopJobs
  <2>4. TopJob(m)
    BY <2>2, <2>3 DEF TopJob
  <2> QED
    BY <1>1, <1>5, <2>4, ThreadPasses DEF Works
<1> QED
  BY <1>4, <1>5 DEF VisitTop

\* A user that a generate sees goes into the contest.
LEMMA VisitRankSteps ==
  ASSUME RInv, NEW w \in Workers, VisitRank(w)
  PROVE  RInv'
<1> DEFINE j == job[w]
           c == j.contest
           u == Walk[j.next]
           i == Item(u, Oriented(score[u], j.inversed))
           n == [j EXCEPT !.next = @ + 1]
<1>1. /\ Works(heap, j, w) /\ j.do = "rank" /\ j.at = "visit" /\ j.next <= Len(Walk)
      /\ heap \in Seq(ContestRecords) /\ vector' \in Workers \cup {Nobody} /\ wild \in BOOLEAN
      /\ w # Nobody
  BY RankingAssumption DEF VisitRank, At, RInv, RTyped, Working
<1>2. RankJob(heap, j, w) /\ j \in RankJobs /\ c \in DOMAIN heap
  BY <1>1, Kinds DEF RankJob
<1>3. n \in RankJobs /\ n.seen = j.seen /\ n.at = "visit" /\ n.contest = c
  BY <1>1, <1>2 DEF RankJobs
<1>4. CASE Goes(w, n) /\ UNCHANGED <<heap, wild>>
  <2>1. RankJob(heap, n, w)
    BY <1>1, <1>2, <1>3 DEF RankJob
  <2> QED
    BY <1>1, <1>4, <2>1, ThreadPasses DEF Works
<1>5. ASSUME heap' = [heap EXCEPT ![c].list = Append(@, i)], Uses(c),
             Goes(w, [n EXCEPT !.seen = Append(@, i)])
      PROVE  RInv'
  <2> DEFINE m == [n EXCEPT !.seen = Append(n.seen, i)]
             e == [heap[c] EXCEPT !.list = Append(heap[c].list, i)]
  <2>1. i \in Items
    <3>1. j.next \in 1 .. Len(Walk)
      BY <1>1, <1>2, RankingAssumption, LenProperties DEF RankJobs
    <3>2. u \in UserIds
      BY <3>1, RankingAssumption, ElementOfSeq
    <3>3. score[u] \in Int /\ -score[u] \in Int
      BY <3>2, RankingAssumption DEF RInv, RTyped
    <3> QED
      BY <3>2, <3>3 DEF Oriented, Item, Items
  <2> HIDE DEF i
  <2>2. heap[c] \in ContestRecords /\ heap[c].list = j.seen /\ heap[c].owner = w
    BY <1>1, <1>2, LenProperties DEF RankJob
  <2>3. /\ j.seen \in Seq(Items) /\ Append(j.seen, i) \in Seq(Items)
    BY <1>2, <2>1, AppendProperties DEF RankJobs
  <2>4. /\ e \in ContestRecords /\ e.alive = heap[c].alive /\ e.owner = w
        /\ e.list = Append(j.seen, i)
    BY <2>2, <2>3 DEF ContestRecords
  <2>5. heap' = [heap EXCEPT ![c] = e]
    BY <1>5
  <2>6. /\ m \in RankJobs /\ m.seen = Append(j.seen, i) /\ m.at = "visit" /\ m.contest = c
    BY <1>3, <2>3 DEF RankJobs
  <2> HIDE DEF e, m
  <2>7. DOMAIN heap' = DOMAIN heap /\ heap'[c] = e
    BY <1>1, <1>2, <2>4, <2>5, HeapAt
  <2>8. RankJob(heap', m, w)
    BY <1>2, <2>4, <2>6, <2>7 DEF RankJob
  <2>9. wild' \in BOOLEAN
    BY <1>1, <1>5 DEF Uses
  <2>10. Goes(w, m) /\ Works(heap', m, w)
    BY <1>5, <2>8 DEF Works, m
  <2> QED
    BY <1>1, <1>2, <2>2, <2>4, <2>5, <2>9, <2>10, ThreadTouches
<1> QED
  BY <1>4, <1>5 DEF VisitRank

\* The end of the walk of a top.
LEMMA EndTopSteps ==
  ASSUME RInv, NEW w \in Workers, EndTop(w)
  PROVE  RInv'
<1> DEFINE j == job[w]
<1>1. /\ Works(heap, j, w) /\ j.do = "top" /\ j.at = "visit"
      /\ heap' = heap /\ vector' \in Workers \cup {Nobody} /\ wild' \in BOOLEAN
  BY DEF EndTop, At, RInv, RTyped, Working
<1>2. TopKept(j.top, j.seen) /\ j \in TopJobs
  BY <1>1, Kinds DEF TopJob
<1>3. PICK t \in Finalize(j.top, j.inversed) : Goes(w, [j EXCEPT !.at = "answer", !.top = t])
  BY DEF EndTop
<1> DEFINE n == [j EXCEPT !.at = "answer", !.top = t]
<1>4. j.seen \in Seq(Items) /\ j.inversed \in BOOLEAN
  BY <1>2 DEF TopJobs
<1>5. /\ t \in TopOf /\ t.count = Len(j.seen)
      /\ t.list = IF j.inversed THEN Inverse_scores(Cut(Sort(j.seen), t.size))
                  ELSE Cut(Sort(j.seen), t.size)
  BY <1>2, <1>3, <1>4, TopEnds, RankingAssumption
<1>6. /\ n \in TopJobs /\ n.top = t /\ n.at = "answer" /\ n.seen = j.seen /\ n.inversed = j.inversed
  BY <1>2, <1>5 DEF TopJobs
<1>7. TopJob(n)
  BY <1>5, <1>6 DEF TopJob
<1> QED
  BY <1>1, <1>3, <1>7, ThreadPasses DEF Works

\* The end of the walk of a generate: the contest is whole.
LEMMA EndRankSteps ==
  ASSUME RInv, NEW w \in Workers, EndRank(w)
  PROVE  RInv'
<1> DEFINE j == job[w]
           c == j.contest
           list == IF j.inversed THEN Inverse_scores(Sort(j.seen)) ELSE Sort(j.seen)
           e == [heap[c] EXCEPT !.list = list, !.whole = list]
           n == [j EXCEPT !.at = "unlock"]
<1>1. /\ Works(heap, j, w) /\ j.do = "rank" /\ j.at = "visit" /\ w # Nobody
      /\ heap \in Seq(ContestRecords) /\ vector' \in Workers \cup {Nobody} /\ wild' \in BOOLEAN
  BY RankingAssumption DEF EndRank, At, Uses, RInv, RTyped, Working
<1>2. RankJob(heap, j, w) /\ j \in RankJobs /\ c \in DOMAIN heap
  BY <1>1, Kinds DEF RankJob
<1>3. heap[c] \in ContestRecords /\ heap[c].list = j.seen /\ heap[c].owner = w
  BY <1>1, <1>2, LenProperties DEF RankJob
<1>4. list \in Seq(Items)
  BY <1>2, Takers, Inversed DEF RankJobs
<1>5. heap' = [heap EXCEPT ![c].list = list, ![c].whole = list]
  BY <1>3 DEF EndRank
<1> HIDE DEF list
<1>6. e \in ContestRecords /\ e.alive = heap[c].alive /\ e.owner = w /\ e.list = e.whole
  BY <1>3, <1>4 DEF ContestRecords
<1>7. heap' = [heap EXCEPT ![c] = e]
  BY <1>1, <1>2, <1>3, <1>5 DEF ContestRecords
<1> HIDE DEF e
<1>8. DOMAIN heap' = DOMAIN heap /\ heap'[c] = e
  BY <1>1, <1>2, <1>6, <1>7, HeapAt
<1>9. n \in RankJobs /\ n.at = "unlock" /\ n.contest = c
  BY <1>2 DEF RankJobs
<1>10. RankJob(heap', n, w)
  BY <1>2, <1>6, <1>8, <1>9 DEF RankJob
<1>11. Goes(w, n)
  BY DEF EndRank
<1> HIDE DEF n
<1>12. Works(heap', n, w)
  BY <1>10 DEF Works
<1> QED
  BY <1>1, <1>2, <1>3, <1>6, <1>7, <1>11, <1>12, ThreadTouches

\* A row of a get.
LEMMA EmitSteps ==
  ASSUME RInv, NEW w \in Workers, Emit(w)
  PROVE  RInv'
<1> DEFINE j == job[w]
           c == j.contest
           list == heap[c].list
           row == [shown |-> ~deleted[list[j.next].user], item |-> list[j.next]]
           n == [j EXCEPT !.next = @ + 1, !.out = Append(@, row)]
<1>1. /\ Works(heap, j, w) /\ j.do = "get" /\ j.at = "emit"
      /\ heap' = heap /\ vector' \in Workers \cup {Nobody} /\ wild' \in BOOLEAN
      /\ j.next <= Min({Len(list), j.from + j.limit}) /\ Goes(w, n)
  BY DEF Emit, At, Uses, RInv, RTyped, Working
<1>2. GetJob(heap, j, w) /\ j \in GetJobs /\ c \in DOMAIN heap
  BY <1>1, Kinds DEF GetJob
<1>3. list = j.whole /\ list \in Seq(Items)
  BY <1>1, <1>2 DEF GetJob, GetJobs
<1>4. Len(list) \in Nat /\ j.from \in Nat /\ j.limit \in Nat /\ Len(j.out) \in Nat /\ j.next \in Nat
  BY <1>2, <1>3, LenProperties DEF GetJobs
<1>5. j.next <= Len(list) /\ j.next <= j.from + j.limit
  <2>1. j.from + j.limit \in Nat
    BY <1>4
  <2> QED
    <3> DEFINE a == Len(list)
               b == j.from + j.limit
               m == j.next
    <3>1. a \in Nat /\ b \in Nat /\ m \in Nat /\ m <= Min({a, b})
      BY <1>1, <1>4, <2>1
    <3> HIDE DEF a, b, m
    <3>2. m <= a /\ m <= b
      BY <3>1, Lesser
    <3> QED
      BY <3>2 DEF a, b, m
<1>6. j.next = j.from + 1 + Len(j.out)
  BY <1>2 DEF GetJob
<1>7. j.next \in DOMAIN list /\ list[j.next] \in Items
  BY <1>3, <1>4, <1>5, <1>6, LenProperties, ElementOfSeq
<1>8. row \in Rows /\ row.item = j.whole[j.next]
  BY <1>3, <1>7 DEF Rows
<1> HIDE DEF row
<1>9. /\ Append(j.out, row) \in Seq(Rows) /\ Len(Append(j.out, row)) = Len(j.out) + 1
      /\ Append(j.out, row)[Len(j.out) + 1] = row
      /\ \A k \in 1 .. Len(j.out) : Append(j.out, row)[k] = j.out[k]
  BY <1>2, <1>8, AppendProperties DEF GetJobs
<1> DEFINE more == Append(j.out, row)
           after == j.next + 1
<1> HIDE DEF more, after
<1>0. n = [j EXCEPT !.next = after, !.out = more] /\ after \in Nat /\ more \in Seq(Rows)
  BY <1>4, <1>9 DEF more, after
<1> HIDE DEF n
<1>10. /\ n \in GetJobs /\ n.next = j.next + 1 /\ n.out = Append(j.out, row) /\ n.contest = c
       /\ n.at = "emit" /\ n.from = j.from /\ n.limit = j.limit /\ n.whole = j.whole
  <2>1. /\ n \in GetJobs /\ n.next = after /\ n.out = more /\ n.contest = c
        /\ n.at = "emit" /\ n.from = j.from /\ n.limit = j.limit /\ n.whole = j.whole
    BY <1>0, <1>1, <1>2 DEF GetJobs
  <2> QED
    BY <2>1 DEF more, after
<1>11. DOMAIN j.out = 1 .. Len(j.out) /\ DOMAIN n.out = 1 .. Len(j.out) + 1
  BY <1>2, <1>9, <1>10, LenProperties DEF GetJobs
<1>12. ASSUME NEW k \in DOMAIN n.out
       PROVE  /\ n.from + k \in DOMAIN n.whole /\ n.from + k <= n.from + n.limit
              /\ n.out[k].item = n.whole[n.from + k]
  <2>1. CASE k = Len(j.out) + 1
    <3>1. j.from + k = j.next
      <4> DEFINE a == j.from
                 b == Len(j.out)
                 m == j.next
      <4>1. a \in Nat /\ b \in Nat /\ m = (a + 1) + b /\ k = b + 1
        BY <1>4, <1>6, <2>1
      <4> HIDE DEF a, b, m
      <4>2. a + k = m
        BY <4>1
      <4> QED
        BY <4>2 DEF a, b, m
    <3> QED
      BY <1>3, <1>5, <1>7, <1>8, <1>9, <1>10, <2>1, <3>1
  <2>2. CASE k \in 1 .. Len(j.out)
    BY <1>2, <1>9, <1>10, <1>11, <2>2 DEF GetJob
  <2> QED
    BY <1>4, <1>11, <2>1, <2>2
<1>13. n.next = n.from + 1 + Len(n.out)
  BY <1>4, <1>6, <1>9, <1>10
<1>14. GetJob(heap, n, w)
  BY <1>1, <1>2, <1>10, <1>12, <1>13 DEF GetJob
<1> QED
  BY <1>1, <1>14, ThreadPasses DEF Works

\* The last row of a get.
LEMMA EmitEndSteps ==
  ASSUME RInv, NEW w \in Workers, EmitEnd(w)
  PROVE  RInv'
<1> DEFINE j == job[w]
           n == [j EXCEPT !.at = "unlock"]
<1>1. /\ Works(heap, j, w) /\ j.do = "get" /\ j.at = "emit"
      /\ heap' = heap /\ vector' \in Workers \cup {Nobody} /\ wild' \in BOOLEAN
      /\ j.next > Min({Len(heap[j.contest].list), j.from + j.limit}) /\ Goes(w, n)
  BY DEF EmitEnd, At, Uses, RInv, RTyped, Working
<1>2. GetJob(heap, j, w) /\ j \in GetJobs
  BY <1>1, Kinds DEF GetJob
<1>3. /\ n \in GetJobs /\ n.next = j.next /\ n.out = j.out /\ n.contest = j.contest
      /\ n.at = "unlock" /\ n.from = j.from /\ n.limit = j.limit /\ n.whole = j.whole
  BY <1>2 DEF GetJobs
<1> HIDE DEF n
<1>4. GetJob(heap, n, w)
  BY <1>1, <1>2, <1>3 DEF GetJob
<1> QED
  BY <1>1, <1>4, ThreadPasses DEF Works

\* Contest::unlock: what is left is whole.
LEMMA UnlockSteps ==
  ASSUME RInv, NEW w \in Workers, UnlockContest(w)
  PROVE  RInv'
<1> DEFINE j == job[w]
           c == j.contest
           n == [j EXCEPT !.at = "answer"]
           e == [heap[c] EXCEPT !.owner = Nobody]
<1>1. /\ Works(heap, j, w) /\ j # Idle /\ j.at = "unlock" /\ heap \in Seq(ContestRecords)
      /\ vector' \in Workers \cup {Nobody} /\ wild' \in BOOLEAN /\ Goes(w, n)
  BY DEF UnlockContest, Uses, RInv, RTyped, Working
<1>2. /\ c \in DOMAIN heap /\ heap[c].owner = w /\ heap[c].list = heap[c].whole
  <2>1. TopJob(j) => j.at # "unlock"
    BY DEF TopJob, TopJobs
  <2>2. CASE RankJob(heap, j, w)
    BY <1>1, <2>2 DEF RankJob
  <2>3. CASE GetJob(heap, j, w)
    BY <1>1, <2>3 DEF GetJob
  <2>4. CASE BriefJob(heap, j, w)
    BY <1>1, <2>4 DEF BriefJob
  <2> QED
    BY <1>1, <2>1, <2>2, <2>3, <2>4 DEF Works
<1>3. heap[c] \in ContestRecords
  BY <1>1, <1>2, LenProperties
<1>4. /\ e \in ContestRecords /\ e.alive = heap[c].alive /\ e.owner = Nobody /\ e.list = e.whole
  BY <1>2, <1>3 DEF ContestRecords
<1>5. heap' = [heap EXCEPT ![c] = e]
  BY DEF UnlockContest
<1> HIDE DEF e
<1>6. DOMAIN heap' = DOMAIN heap
  BY <1>1, <1>2, <1>4, <1>5, HeapAt
<1>7. Works(heap', n, w)
  <2>1. CASE j.do = "rank"
    <3>1. RankJob(heap, j, w)
      BY <1>1, <2>1, Kinds
    <3>2. RankJob(heap', n, w)
      BY <1>2, <1>6, <3>1 DEF RankJob, RankJobs
    <3> QED
      BY <3>2 DEF Works
  <2>2. CASE j.do = "get"
    <3>1. GetJob(heap, j, w)
      BY <1>1, <2>2, Kinds
    <3>2. /\ n \in GetJobs /\ n.next = j.next /\ n.out = j.out /\ n.contest = j.contest
          /\ n.at = "answer" /\ n.from = j.from /\ n.limit = j.limit /\ n.whole = j.whole
      BY <3>1 DEF GetJob, GetJobs
    <3>3. GetJob(heap', n, w)
      <4> HIDE DEF n
      <4> QED
        BY <1>1, <1>6, <3>1, <3>2 DEF GetJob
    <3> QED
      BY <3>3 DEF Works
  <2>3. CASE j.do = "find"
    <3>1. PICK p : j \in FindJobs(p)
      BY <1>1, <2>3, Kinds
    <3>2. n \in FindJobs(p) /\ n.contest = c /\ n.at = "answer"
      BY <3>1 DEF FindJobs
    <3> QED
      BY <1>2, <1>6, <3>2 DEF BriefJob, Works
  <2>4. CASE j.do = "clear"
    <3>1. j \in ClearJobs
      BY <1>1, <2>4, Kinds
    <3>2. n \in ClearJobs /\ n.contest = c /\ n.at = "answer"
      BY <3>1 DEF ClearJobs
    <3> QED
      BY <1>2, <1>6, <3>2 DEF BriefJob, Works
  <2> QED
    BY <1>1, <2>1, <2>2, <2>3, <2>4, Kinds DEF TopJob, TopJobs
<1> HIDE DEF n
<1> QED
  BY <1>1, <1>2, <1>4, <1>5, <1>7, ThreadTouches

\* The answer of a thread, which is its last step.
LEMMA AnswerSteps ==
  ASSUME RInv, NEW w \in Workers, Answer(w)
  PROVE  RInv'
<1>1. /\ Goes(w, Idle) /\ heap' = heap /\ vector' \in Workers \cup {Nobody} /\ wild' \in BOOLEAN
  BY DEF Answer, Ends, Uses, RInv, RTyped
<1>2. Works(heap, Idle, w)
  BY DEF Works
<1> QED
  BY <1>1, <1>2, ThreadPasses

\* Every step of a thread.
LEMMA ThreadSteps ==
  ASSUME RInv, NEW w \in Workers, Thread(w)
  PROVE  RInv'
BY LockSteps, VectorSteps, VisitTopSteps, EndTopSteps, VisitRankSteps, EndRankSteps, EmitSteps,
   EmitEndSteps, UnlockSteps, AnswerSteps DEF Thread

\* The trees that the parser has on its stack, and the one it leaves.
Trees ==
  /\ stack \in Seq(Rankings)
  /\ expr \in {NoExpr} \cup Rankings

\* A command is kept while its filter is parsed, and a thread is there for it.
Waiting ==
  /\ command \in WhereCommands \cup {Count, NoCommand}
  /\ parse = "idle" => command = NoCommand
  /\ command \in WhereCommands => \E w \in Workers : job[w] = Idle

\* The invariant of the commands and the threads.
QInv == RInv /\ Trees /\ Waiting

\* The commands are told from each other: count has no filter to wait for.
LEMMA CommandKinds ==
  /\ NoCommand \notin WhereCommands /\ Count \notin WhereCommands
  /\ \A c \in WhereCommands : c # Count
<1>1. \A c \in WhereCommands : c.do \in {"top", "generate"}
  BY DEF WhereCommands
<1> QED
  BY <1>1 DEF NoCommand, Count

-----------------------------------------------------------------------------
\* The parser.

\* What the nodes of a tree say of a context.
LEMMA Nodes ==
  /\ Contexts \in Rankings /\ {} \in Rankings
  /\ \A w : Prefixed(w) \in Rankings
  /\ \A f : InFilter(f) \in Rankings
  /\ \A a \in Rankings : Not(a) \in Rankings
  /\ \A a, b \in Rankings : And(a, b) \in Rankings /\ Or(a, b) \in Rankings
BY DEF Rankings, Prefixed, InFilter, Not, And, Or

\* A tree is pushed,
LEMMA Pushes ==
  ASSUME NEW s \in Seq(Rankings), NEW e \in Rankings
  PROVE  <<e>> \o s \in Seq(Rankings)
<1>1. <<e>> \in Seq(Rankings)
  OBVIOUS
<1> QED
  BY <1>1, ConcatProperties

\* ... or one is made of those on top.
LEMMA Pops ==
  ASSUME Trees, NEW n \in {1, 2}, NEW e, Pop(n, e), Len(stack) >= n => e \in Rankings
  PROVE  stack' \in Seq(Rankings)
<1>1. CASE Len(stack) < n
  BY <1>1 DEF Pop, Trees
<1>2. CASE ~(Len(stack) < n)
  <2>1. stack \in Seq(Rankings) /\ Len(stack) \in Nat
    BY LenProperties DEF Trees
  <2>2. n + 1 \in Int /\ Len(stack) \in Int /\ \A i \in n + 1 .. Len(stack) : stack[i] \in Rankings
    <3>1. \A i \in n + 1 .. Len(stack) : i \in 1 .. Len(stack)
      BY <2>1
    <3> QED
      BY <2>1, <3>1, ElementOfSeq
  <2>3. SubSeq(stack, n + 1, Len(stack)) \in Seq(Rankings)
    BY <2>2, SubSeqProperties
  <2>4. e \in Rankings
    BY <1>2, <2>1
  <2>5. stack' = <<e>> \o SubSeq(stack, n + 1, Len(stack))
    BY <1>2 DEF Pop
  <2> QED
    BY <2>3, <2>4, <2>5, Pushes
<1> QED
  BY <1>1, <1>2

\* No step of ExprParser leaves anything but trees on its stack.
LEMMA TreesKept ==
  ASSUME Trees, ParseNext
  PROVE  Trees' /\ parse # "idle" /\ parse' # "idle"
<1>1. ASSUME NEW e \in Rankings, stack' = <<e>> \o stack, UNCHANGED expr PROVE Trees'
  BY <1>1, Pushes DEF Trees
<1>2. ASSUME UNCHANGED <<stack, expr>> PROVE Trees'
  BY <1>2 DEF Trees
<1>3. CASE Nothing
  BY <1>2, <1>3 DEF Nothing, Word, Fail
<1>4. CASE Paren
  BY <1>2, <1>4 DEF Paren, Word, Call
<1>5. CASE Constant
  BY <1>1, <1>5, Nodes DEF Constant, Word, Push
<1>6. CASE Affix
  BY <1>1, <1>6, Nodes DEF Affix, Word, Push
<1>7. CASE Negation
  BY <1>2, <1>7 DEF Negation, Word, Call
<1>8. CASE Operation
  BY <1>2, <1>8 DEF Operation, Word, Call, Fail
<1>9. CASE Unexpected
  BY <1>2, <1>9 DEF Unexpected, Word, Fail
<1>10. CASE Brackets
  BY <1>1, <1>2, <1>10, Nodes DEF Brackets
<1>11. CASE ReturnExpr
  BY <1>2, <1>11 DEF ReturnExpr, Return
<1>12. CASE ReturnParen
  BY <1>2, <1>12 DEF ReturnParen, Return
<1>13. CASE ReturnOperator
  <2>1. parse \in {"true", "false"} /\ parse' \in {"true", "false", "wild"} /\ UNCHANGED expr
    BY <1>13 DEF ReturnOperator, Return, Apply, Pop, Operators
  <2>2. stack' \in Seq(Rankings)
    <3>1. PICK frame \in Operators \cup {"!"} :
            IF parse = "true" THEN Apply(frame) ELSE UNCHANGED <<stack, parse>>
      BY <1>13 DEF ReturnOperator
    <3>2. \A i \in 1 .. Len(stack) : stack[i] \in Rankings
      BY ElementOfSeq DEF Trees
    <3>3. Len(stack) \in Nat
      BY LenProperties DEF Trees
    <3>4. CASE parse = "true" /\ frame = "!"
      <4>1. Len(stack) >= 1 => Not(stack[1]) \in Rankings
        BY <3>2, <3>3, Nodes
      <4>2. Pop(1, Not(stack[1]))
        BY <3>1, <3>4 DEF Apply
      <4> QED
        BY <4>1, <4>2, Pops
    <3>5. CASE parse = "true" /\ frame = "and"
      <4>1. Len(stack) >= 2 => And(stack[1], stack[2]) \in Rankings
        BY <3>2, <3>3, Nodes
      <4>2. Pop(2, And(stack[1], stack[2]))
        BY <3>1, <3>5 DEF Apply
      <4> QED
        BY <4>1, <4>2, Pops
    <3>6. CASE parse = "true" /\ frame = "or"
      <4>1. Len(stack) >= 2 => Or(stack[1], stack[2]) \in Rankings
        BY <3>2, <3>3, Nodes
      <4>2. Pop(2, Or(stack[1], stack[2]))
        BY <3>1, <3>6 DEF Apply
      <4> QED
        BY <4>1, <4>2, Pops
    <3>7. CASE parse # "true"
      BY <3>1, <3>7 DEF Trees
    <3> QED
      BY <3>1, <3>4, <3>5, <3>6, <3>7 DEF Operators
  <2> QED
    BY <2>1, <2>2 DEF Trees
<1>14. CASE Compiled
  <2>1. stack # <<>> => stack[1] \in Rankings
    BY EmptySeq, ElementOfSeq DEF Trees
  <2> QED
    BY <1>14, <2>1 DEF Compiled, Trees
<1> QED
  BY <1>3, <1>4, <1>5, <1>6, <1>7, <1>8, <1>9, <1>10, <1>11, <1>12, <1>13, <1>14 DEF ParseNext

\* The event loop starts a thread on a worker that has nothing to do.
LEMMA LoopStarts ==
  ASSUME RInv, \E w \in Workers : job[w] = Idle, NEW j, Start(j),
         heap' \in Seq(ContestRecords), DOMAIN heap \subseteq DOMAIN heap',
         \A c \in DOMAIN heap : heap'[c] = heap[c],
         \A w \in Workers : Works(heap', j, w)
  PROVE  Working' /\ job' = [w \in Workers |-> job'[w]]
<1>1. Free \in Workers /\ job[Free] = Idle
  BY DEF Free
<1>2. job' = [job EXCEPT ![Free] = j]
  BY DEF Start
<1>3. job' = [w \in Workers |-> IF w = Free THEN j ELSE job[w]]
  BY <1>1, <1>2 DEF RInv, RTyped
<1>4. ASSUME NEW w \in Workers PROVE Works(heap', job'[w], w)
  <2>1. CASE w = Free
    BY <1>3, <2>1
  <2>2. CASE w # Free
    <3>1. job'[w] = job[w] /\ Works(heap, job[w], w)
      BY <1>3, <2>2 DEF RInv, Working
    <3> QED
      BY <3>1, OthersWork DEF RInv, RTyped
  <2> QED
    BY <2>1, <2>2
<1> QED
  BY <1>3, <1>4 DEF Working

\* top
LEMMA StartTopKeeps ==
  ASSUME RInv, \E w \in Workers : job[w] = Idle, NEW filter \in Rankings, NEW inversed \in BOOLEAN,
         NEW size \in Sizes, StartTop(filter, inversed, size)
  PROVE  RInv'
<1> DEFINE j == [do |-> "top", at |-> "vector", filter |-> filter, inversed |-> inversed,
                 next |-> 1, seen |-> <<>>, top |-> NewTop(size)]
<1>1. Start(j) /\ UNCHANGED <<contests, heap>>
  BY DEF StartTop
<1>2. UNCHANGED <<score, group, deleted, vector, wild>>
  BY <1>1 DEF Start, userVars
<1>3. /\ j \in TopJobs /\ j.at = "vector" /\ j.seen = <<>> /\ j.top = NewTop(size)
      /\ TopKept(NewTop(size), <<>>)
  <2>1. size \in Nat
    BY RankingAssumption
  <2>2. TopKept(NewTop(size), <<>>)
    BY <2>1, TopNew
  <2>3. NewTop(size) \in TopOf /\ <<>> \in Seq(Items)
    BY <2>2, EmptySeq DEF TopKept
  <2> QED
    BY <2>2, <2>3 DEF TopJobs
<1> HIDE DEF j
<1>4. \A w \in Workers : Works(heap, j, w)
  BY <1>3 DEF Works, TopJob
<1>5. /\ heap' \in Seq(ContestRecords) /\ DOMAIN heap \subseteq DOMAIN heap'
      /\ \A c \in DOMAIN heap : heap'[c] = heap[c]
      /\ \A w \in Workers : Works(heap', j, w)
  BY <1>1, <1>4 DEF RInv, RTyped
<1>6. Working' /\ job' = [w \in Workers |-> job'[w]]
  BY <1>1, <1>5, LoopStarts
<1> QED
  BY <1>1, <1>2, <1>6 DEF RInv, RTyped, Named, Quiet

\* A new contest.
LEMMA CreatedKeeps ==
  ASSUME RTyped, Named, Quiet, NEW name \in Names, Created(name)
  PROVE  /\ heap' \in Seq(ContestRecords) /\ DOMAIN heap \subseteq DOMAIN heap'
         /\ \A c \in DOMAIN heap : heap'[c] = heap[c]
         /\ contests' \in [Names -> 0 .. Len(heap')]
         /\ contests'[name] \in DOMAIN heap'
         /\ Named' /\ Quiet'
<1>1. /\ heap \in Seq(ContestRecords) /\ Len(heap) \in Nat /\ DOMAIN heap = 1 .. Len(heap)
      /\ contests \in [Names -> 0 .. Len(heap)]
  BY LenProperties DEF RTyped
<1>2. CASE contests[name] # None
  <2>1. UNCHANGED <<contests, heap>>
    BY <1>2 DEF Created
  <2>2. contests[name] \in DOMAIN heap
    BY <1>1, <1>2 DEF None
  <2> QED
    BY <1>1, <2>1, <2>2 DEF Named, Quiet
<1>3. CASE contests[name] = None
  <2>1. heap' = Append(heap, NewContest) /\ contests' = [contests EXCEPT ![name] = Len(heap) + 1]
    BY <1>3 DEF Created
  <2>2. NewContest \in ContestRecords /\ NewContest.alive /\ NewContest.list = NewContest.whole
    BY EmptySeq DEF NewContest, ContestRecords
  <2>3. /\ heap' \in Seq(ContestRecords) /\ Len(heap') = Len(heap) + 1
        /\ heap'[Len(heap) + 1] = NewContest
        /\ \A c \in 1 .. Len(heap) : heap'[c] = heap[c]
    BY <1>1, <2>1, <2>2, AppendProperties
  <2>4. DOMAIN heap' = 1 .. Len(heap) + 1
    BY <2>3, LenProperties
  <2>5. /\ contests' \in [Names -> 0 .. Len(heap')]
        /\ contests'[name] = Len(heap) + 1
        /\ \A n \in Names : n # name => contests'[n] = contests[n]
    BY <1>1, <2>1, <2>3
  <2>6. Named'
    <3>1. \A n \in Names : contests[n] # None => contests[n] \in 1 .. Len(heap)
      BY <1>1 DEF None
    <3>2. ASSUME NEW n \in Names, contests'[n] # None PROVE heap'[contests'[n]].alive
      <4>1. CASE n = name
        BY <2>2, <2>3, <2>5, <4>1
      <4>2. CASE n # name
        BY <2>3, <2>5, <3>1, <3>2, <4>2 DEF Named
      <4> QED
        BY <4>1, <4>2
    <3>3. ASSUME NEW m \in Names, NEW n \in Names, contests'[m] # None, contests'[m] = contests'[n]
          PROVE  m = n
      <4>1. Len(heap) + 1 \notin 1 .. Len(heap) /\ Len(heap) + 1 # None
        BY <1>1 DEF None
      <4>2. CASE m # name /\ n # name
        BY <2>5, <3>3, <4>2 DEF Named
      <4>3. CASE m = name /\ n # name
        BY <2>5, <3>1, <3>3, <4>1, <4>3
      <4>4. CASE m # name /\ n = name
        BY <2>5, <3>1, <3>3, <4>1, <4>4
      <4> QED
        BY <4>2, <4>3, <4>4
    <3> QED
      BY <3>2, <3>3 DEF Named
  <2>7. Quiet'
    BY <1>1, <2>2, <2>3, <2>4 DEF Quiet
  <2> QED
    BY <1>1, <2>3, <2>4, <2>5, <2>6, <2>7
<1> QED
  BY <1>2, <1>3

\* contests generate
LEMMA GenerateKeeps ==
  ASSUME RInv, \E w \in Workers : job[w] = Idle, NEW name \in Names, NEW filter \in Rankings,
         NEW inversed \in BOOLEAN, NEW complete, Generate(name, filter, inversed, complete)
  PROVE  RInv'
<1> DEFINE j == [do |-> "rank", at |-> "lock", contest |-> contests'[name],
                 filter |-> filter, inversed |-> inversed, next |-> 1, seen |-> <<>>]
<1>1. /\ heap' \in Seq(ContestRecords) /\ DOMAIN heap \subseteq DOMAIN heap'
      /\ \A c \in DOMAIN heap : heap'[c] = heap[c]
      /\ contests' \in [Names -> 0 .. Len(heap')]
      /\ contests'[name] \in DOMAIN heap'
      /\ Named' /\ Quiet'
  BY CreatedKeeps DEF Generate, RInv
<1>2. UNCHANGED <<score, group, deleted, vector, wild>>
  BY DEF Generate, Start, userVars
<1>3. CASE Start(j)
  <2>1. j \in RankJobs /\ j.at = "lock" /\ j.seen = <<>> /\ j.contest = contests'[name]
    <3>1. contests'[name] \in Nat
      BY <1>1
    <3> QED
      BY <3>1, EmptySeq DEF RankJobs
  <2> HIDE DEF j
  <2>2. \A w \in Workers : Works(heap', j, w)
    BY <1>1, <2>1 DEF Works, RankJob
  <2>3. Working' /\ job' = [w \in Workers |-> job'[w]]
    BY <1>1, <1>3, <2>2, LoopStarts
  <2> QED
    BY <1>1, <1>2, <2>3 DEF RInv, RTyped
<1>4. CASE job' = job
  <2>1. ASSUME NEW w \in Workers PROVE Works(heap', job'[w], w)
    BY <1>1, <1>4, OthersWork DEF RInv, RTyped, Working
  <2> QED
    BY <1>1, <1>2, <1>4, <2>1 DEF RInv, RTyped, Working
<1> QED
  BY <1>3, <1>4 DEF Generate

\* contests :: <name> get, find, clear
LEMMA OnContestKeeps ==
  ASSUME RInv, NEW name \in Names, NEW j, OnContest(name, j),
         \A w \in Workers : contests[name] # None => Works(heap, j, w)
  PROVE  RInv'
<1>1. /\ Start(j) /\ UNCHANGED <<contests, heap>> /\ contests[name] # None
      /\ \E w \in Workers : job[w] = Idle
  BY DEF OnContest, Comes
<1>2. UNCHANGED <<score, group, deleted, vector, wild>>
  BY <1>1 DEF Start, userVars
<1>3. /\ heap' \in Seq(ContestRecords) /\ DOMAIN heap \subseteq DOMAIN heap'
      /\ \A c \in DOMAIN heap : heap'[c] = heap[c]
      /\ \A w \in Workers : Works(heap', j, w)
  BY <1>1 DEF RInv, RTyped
<1>4. Working' /\ job' = [w \in Workers |-> job'[w]]
  BY <1>1, <1>3, LoopStarts
<1> QED
  BY <1>1, <1>2, <1>4 DEF RInv, RTyped, Named, Quiet

\* A name that is taken stands for a contest of the heap.
LEMMA NamedContests ==
  ASSUME RTyped, NEW name \in Names, contests[name] # None
  PROVE  contests[name] \in DOMAIN heap /\ contests[name] \in Nat
<1>1. contests[name] \in 0 .. Len(heap) /\ DOMAIN heap = 1 .. Len(heap) /\ Len(heap) \in Nat
  BY LenProperties DEF RTyped
<1> QED
  BY <1>1 DEF None

\* A contest get is given the contest and the slice, and holds nothing yet.
LEMMA GetKeeps ==
  ASSUME RInv, NEW name \in Names, NEW s \in Slices, Get(name, s.from, s.limit)
  PROVE  RInv'
<1> DEFINE j == [do |-> "get", at |-> "lock", contest |-> contests[name], from |-> s.from,
                 limit |-> s.limit, next |-> s.from + 1, out |-> <<>>, whole |-> <<>>]
<1>1. OnContest(name, j)
  BY DEF Get
<1>2. ASSUME contests[name] # None, NEW w PROVE Works(heap, j, w)
  <2>1. contests[name] \in DOMAIN heap /\ contests[name] \in Nat
    BY <1>2, NamedContests DEF RInv
  <2>2. s.from \in Nat /\ s.limit \in Nat /\ s.from + 1 \in Nat
    BY RankingAssumption
  <2>3. <<>> \in Seq(Items) /\ <<>> \in Seq(Rows) /\ Len(<<>>) = 0 /\ DOMAIN <<>> = {}
    BY EmptySeq
  <2>4. j \in GetJobs
    BY <2>1, <2>2, <2>3 DEF GetJobs
  <2>5. /\ j.next = j.from + 1 + Len(j.out) /\ j.at = "lock" /\ j.out = <<>>
        /\ j.contest = contests[name] /\ DOMAIN j.out = {}
    BY <2>2, <2>3
  <2> HIDE DEF j
  <2>6. GetJob(heap, j, w)
    BY <2>1, <2>4, <2>5 DEF GetJob
  <2> QED
    BY <2>6 DEF Works
<1> QED
  BY <1>1, <1>2, OnContestKeeps

\* So is a contest find, with the user,
LEMMA FindKeeps ==
  ASSUME RInv, NEW name \in Names, NEW u \in UserIds, Find(name, u)
  PROVE  RInv'
<1> DEFINE j == [do |-> "find", at |-> "lock", contest |-> contests[name], user |-> u, position |-> -1]
<1>1. OnContest(name, j)
  BY DEF Find
<1>2. ASSUME contests[name] # None, NEW w PROVE Works(heap, j, w)
  <2>1. contests[name] \in DOMAIN heap /\ contests[name] \in Nat
    BY <1>2, NamedContests DEF RInv
  <2>2. j \in FindJobs(-1) /\ j.contest = contests[name] /\ j.at = "lock"
    BY <2>1 DEF FindJobs
  <2> HIDE DEF j
  <2> QED
    BY <2>1, <2>2 DEF Works, BriefJob
<1> QED
  BY <1>1, <1>2, OnContestKeeps

\* ... and a contest clear.
LEMMA ClearKeeps ==
  ASSUME RInv, NEW name \in Names, Clear(name)
  PROVE  RInv'
<1> DEFINE j == [do |-> "clear", at |-> "lock", contest |-> contests[name]]
<1>1. OnContest(name, j)
  BY DEF Clear
<1>2. ASSUME contests[name] # None, NEW w PROVE Works(heap, j, w)
  <2>1. contests[name] \in DOMAIN heap /\ contests[name] \in Nat
    BY <1>2, NamedContests DEF RInv
  <2>2. j \in ClearJobs /\ j.contest = contests[name] /\ j.at = "lock"
    BY <2>1 DEF ClearJobs
  <2> HIDE DEF j
  <2> QED
    BY <2>1, <2>2 DEF Works, BriefJob
<1> QED
  BY <1>1, <1>2, OnContestKeeps

\* contests delete: the threads that have the contest go on with it.
LEMMA DeleteKeeps ==
  ASSUME RInv, NEW name \in Names, Delete(name)
  PROVE  RInv'
<1> DEFINE c == contests[name]
           e == [heap[c] EXCEPT !.alive = FALSE]
<1>1. c # None /\ c \in DOMAIN heap /\ heap \in Seq(ContestRecords)
  BY NamedContests DEF Delete, RInv, RTyped
<1>2. heap[c] \in ContestRecords
  BY <1>1, LenProperties
<1>3. e \in ContestRecords /\ e.list = heap[c].list /\ e.whole = heap[c].whole
      /\ e.owner = heap[c].owner
  BY <1>2 DEF ContestRecords
<1>4. heap' = [heap EXCEPT ![c] = e]
  BY DEF Delete
<1> HIDE DEF e
<1>5. /\ heap' \in Seq(ContestRecords) /\ Len(heap') = Len(heap) /\ DOMAIN heap' = DOMAIN heap
      /\ \A d \in DOMAIN heap : heap'[d] = IF d = c THEN e ELSE heap[d]
  BY <1>1, <1>3, <1>4, HeapAt
<1>6. UNCHANGED <<score, group, deleted, vector, job, wild>>
  BY DEF Delete, userVars
<1>7. contests' = [contests EXCEPT ![name] = None]
  BY DEF Delete
<1>8. contests' \in [Names -> 0 .. Len(heap)]
      /\ \A n \in Names : contests'[n] = IF n = name THEN None ELSE contests[n]
  BY <1>7, LenProperties DEF RInv, RTyped, None
<1>9. RTyped'
  BY <1>5, <1>6, <1>8 DEF RInv, RTyped
<1>10. Named'
  <2>1. \A n \in Names : contests'[n] # None => n # name /\ contests'[n] = contests[n] /\ contests[n] # c
                                               /\ contests[n] \in DOMAIN heap
    BY <1>1, <1>8, NamedContests DEF RInv, Named
  <2> QED
    BY <1>5, <2>1 DEF RInv, Named
<1>11. Quiet'
  BY <1>3, <1>5 DEF RInv, Quiet
<1>12. Working'
  <2>1. \A d \in DOMAIN heap :
          /\ heap'[d].owner = heap[d].owner /\ heap'[d].list = heap[d].list
          /\ heap'[d].whole = heap[d].whole
    BY <1>3, <1>5
  <2>2. ASSUME NEW w \in Workers PROVE Works(heap', job[w], w)
    BY <1>1, <1>5, <2>1, OthersWork DEF RInv, Working
  <2> QED
    BY <1>6, <2>2 DEF Working
<1> QED
  BY <1>9, <1>10, <1>11, <1>12 DEF RInv

\* The scores, groups and users change.
LEMMA UsersKeep ==
  ASSUME RInv, ChangeUser
  PROVE  RInv'
<1>1. UNCHANGED <<contests, heap, wild, vector, job>>
  BY DEF ChangeUser, contestVars
<1>2. PICK u \in UserIds :
        \/ \E s \in Scores \ {score[u]} :
             score' = [score EXCEPT ![u] = s] /\ UNCHANGED <<group, deleted>>
        \/ group[u] # {} /\ group' = [group EXCEPT ![u] = {}] /\ UNCHANGED <<score, deleted>>
        \/ ~deleted[u] /\ deleted' = [deleted EXCEPT ![u] = TRUE] /\ UNCHANGED <<score, group>>
  BY DEF ChangeUser
<1>3. /\ score \in [UserIds -> Scores] /\ group \in [UserIds -> Groups]
      /\ deleted \in [UserIds -> BOOLEAN] /\ {} \in Groups
  BY RankingAssumption DEF RInv, RTyped
<1>4. /\ score' \in [UserIds -> Scores] /\ group' \in [UserIds -> Groups]
      /\ deleted' \in [UserIds -> BOOLEAN]
  BY <1>2, <1>3
<1>5. RTyped'
  BY <1>1, <1>4 DEF RInv, RTyped
<1> QED
  BY <1>1, <1>5 DEF RInv, Named, Quiet, Working

\* The invariant holds when the server starts.
LEMMA QInvInit == Init => QInv
<1> SUFFICES ASSUME Init PROVE QInv
  OBVIOUS
<1>1. RInv
  BY Starting DEF Init
<1>2. Trees
  BY EmptySeq DEF Init, ParserInit, Trees
<1>3. Waiting
  BY CommandKinds DEF Init, ParserInit, Waiting
<1> QED
  BY <1>1, <1>2, <1>3 DEF QInv

\* What leaves the rankings alone.
LEMMA RankingsRest ==
  ASSUME RInv, UNCHANGED <<score, group, deleted, contests, heap, wild, vector, job>>
  PROVE  RInv'
BY DEF RInv, RTyped, Named, Quiet, Working

\* A command with a filter is received: the rankings do not change.
LEMMA ReceiveKeeps ==
  ASSUME QInv, NEW c \in WhereCommands \cup {Count}, NEW t, Receive(c, t)
  PROVE  QInv'
<1>1. RInv'
  BY RankingsRest DEF Receive, userVars, contestVars, QInv
<1>2. Trees'
  BY EmptySeq DEF Receive, Compile, Trees
<1>3. Waiting'
  <2>1. command' = c /\ parse' = "element" /\ job' = job
    BY DEF Receive, Compile
  <2>2. c \in WhereCommands => \E w \in Workers : job[w] = Idle
    BY CommandKinds DEF Receive, Comes
  <2> QED
    BY <2>1, <2>2 DEF Waiting
<1> QED
  BY <1>1, <1>2, <1>3 DEF QInv

\* The parser steps: nor do they.
LEMMA ParseKeeps ==
  ASSUME QInv, ParseStep
  PROVE  QInv'
<1>1. RInv'
  BY RankingsRest DEF ParseStep, rankingVars, userVars, contestVars, QInv
<1>2. Trees' /\ parse' # "idle"
  BY TreesKept DEF ParseStep, QInv
<1>3. Waiting'
  BY <1>2 DEF ParseStep, rankingVars, Waiting, QInv
<1> QED
  BY <1>1, <1>2, <1>3 DEF QInv

\* The filter is compiled and its command runs, or is refused.
LEMMA RunKeeps ==
  ASSUME QInv, Run
  PROVE  QInv'
<1>1. /\ expr \in {NoExpr} \cup Rankings
      /\ command \in WhereCommands \cup {Count, NoCommand}
      /\ command \in WhereCommands => \E w \in Workers : job[w] = Idle
  BY DEF QInv, Trees, Waiting
<1>2. CASE command.do = "generate" /\ expr # NoExpr
  <2>1. /\ command \in WhereCommands /\ command.name \in Names /\ command.inversed \in BOOLEAN
    BY <1>1, <1>2 DEF WhereCommands, Count, NoCommand
  <2>2. Generate(command.name, expr, command.inversed, Accepted)
    BY <1>2 DEF Run
  <2>3. RInv'
    BY <1>1, <1>2, <2>1, <2>2, GenerateKeeps DEF QInv
  <2> QED
    BY <2>3, EmptySeq, CommandKinds DEF Run, ParserFree, QInv, Trees, Waiting
<1>3. CASE command.do = "top" /\ Accepted
  <2>1. /\ command \in WhereCommands /\ command.size \in Sizes /\ command.inversed \in BOOLEAN
        /\ expr \in Rankings
    BY <1>1, <1>3 DEF WhereCommands, Count, NoCommand, Accepted
  <2>2. StartTop(expr, command.inversed, command.size)
    BY <1>3 DEF Run
  <2>3. RInv'
    BY <1>1, <2>1, <2>2, StartTopKeeps DEF QInv
  <2> QED
    BY <2>3, EmptySeq, CommandKinds DEF Run, ParserFree, QInv, Trees, Waiting
<1>4. CASE ~(command.do = "generate" /\ expr # NoExpr) /\ ~(command.do = "top" /\ Accepted)
  <2>1. UNCHANGED <<userVars, contestVars, vector, job>>
    BY <1>4 DEF Run
  <2>2. RInv'
    BY <2>1, RankingsRest DEF userVars, contestVars, QInv
  <2> QED
    BY <2>2, EmptySeq, CommandKinds DEF Run, ParserFree, QInv, Trees, Waiting
<1> QED
  BY <1>2, <1>3, <1>4

\* What leaves the parser alone while it has nothing to do.
LEMMA ParserRests ==
  ASSUME QInv, RInv', parse = "idle", UNCHANGED <<parserVars, command>>
  PROVE  QInv'
BY CommandKinds DEF QInv, Trees, Waiting, parserVars

\* Contest commands without a filter, and what changes the users.
LEMMA OtherKeeps ==
  ASSUME QInv, Other
  PROVE  QInv'
<1>1. RInv
  BY DEF QInv
<1>2. ASSUME NEW n \in Names, NEW s \in Slices, Get(n, s.from, s.limit) PROVE RInv'
  BY <1>1, <1>2, GetKeeps
<1>3. ASSUME NEW n \in Names, NEW u \in UserIds, Find(n, u) PROVE RInv'
  BY <1>1, <1>3, FindKeeps
<1>4. ASSUME NEW n \in Names, Clear(n) PROVE RInv'
  BY <1>1, <1>4, ClearKeeps
<1>5. ASSUME NEW n \in Names, Delete(n) PROVE RInv'
  BY <1>1, <1>5, DeleteKeeps
<1>6. ASSUME ChangeUser PROVE RInv'
  BY <1>1, <1>6, UsersKeep
<1>7. RInv'
  BY <1>2, <1>3, <1>4, <1>5, <1>6 DEF Other
<1> QED
  BY <1>7, ParserRests DEF Other

\* A thread works on while the parser is at rest.
LEMMA ThreadStepKeeps ==
  ASSUME QInv, NEW w \in Workers, ThreadStep(w)
  PROVE  QInv'
<1>1. RInv'
  BY ThreadSteps DEF ThreadStep, QInv
<1> QED
  BY <1>1, ParserRests DEF ThreadStep

\* Every step keeps the invariant.
LEMMA QInvNext == QInv /\ [Next]_vars => QInv'
<1> SUFFICES ASSUME QInv, [Next]_vars PROVE QInv'
  OBVIOUS
<1>1. ASSUME NEW c \in WhereCommands, NEW t, Receive(c, t) PROVE QInv'
  BY <1>1, ReceiveKeeps
<1>2. ASSUME NEW t, Receive(Count, t) PROVE QInv'
  BY <1>2, ReceiveKeeps
<1>3. CASE vars' = vars
  <2>1. RInv'
    BY <1>3, RankingsRest DEF vars, rankingVars, userVars, contestVars, QInv
  <2> QED
    BY <1>3, <2>1 DEF QInv, Trees, Waiting, vars, parserVars, rankingVars
<1> QED
  BY <1>1, <1>2, <1>3, ParseKeeps, RunKeeps, OtherKeeps, ThreadStepKeeps DEF Next

\* Top::add, Contest::lock and the loops over the users: what a thread has seen of
\* the users, and what it holds of a contest, stay what its next steps rely on,
\* whatever the other threads and the commands do.
THEOREM RankingInvariance == Spec => []QInv
BY QInvInit, QInvNext, PTL DEF Spec

\* Top::add and Top::finalize: the answer of a top is the size best of all the
\* users it saw, in order, although the list is cut again and again on the way.
THEOREM TopsAreTops == Spec => []TopIsTop
<1>1. QInv => TopIsTop
  <2> SUFFICES ASSUME QInv, NEW w \in Workers, At(w, "top", "answer")
               PROVE  /\ job[w].top.count = Len(job[w].seen)
                      /\ job[w].top.list = IF job[w].inversed
                                           THEN Inverse_scores(Cut(Sort(job[w].seen), job[w].top.size))
                                           ELSE Cut(Sort(job[w].seen), job[w].top.size)
    BY DEF TopIsTop
  <2>1. TopJob(job[w]) /\ job[w].at = "answer"
    BY Kinds DEF QInv, RInv, Working, At
  <2> QED
    BY <2>1 DEF TopJob
<1> QED
  BY <1>1, RankingInvariance, PTL

\* What a get has read is the slice it was asked for.
LEMMA SliceRead ==
  ASSUME NEW h, NEW j, NEW w, GetJob(h, j, w), j.at = "answer"
  PROVE  SubSeq(j.whole, j.from + 1, Min({Len(j.whole), j.from + j.limit}))
           = [k \in DOMAIN j.out |-> j.out[k].item]
<1> DEFINE s == j.whole
           a == j.from
           n == Len(j.out)
           m == Min({Len(s), a + j.limit})
           slice == SubSeq(s, a + 1, m)
<1>1. /\ s \in Seq(Items) /\ a \in Nat /\ j.limit \in Nat /\ j.out \in Seq(Rows)
      /\ j.next = a + 1 + n /\ j.next > m
      /\ \A k \in DOMAIN j.out : /\ a + k \in DOMAIN s /\ a + k <= a + j.limit
                                 /\ j.out[k].item = s[a + k]
  BY DEF GetJob, GetJobs
<1>2. Len(s) \in Nat /\ DOMAIN s = 1 .. Len(s) /\ n \in Nat /\ DOMAIN j.out = 1 .. n
  BY <1>1, LenProperties
<1>3. m = (IF Len(s) <= a + j.limit THEN Len(s) ELSE a + j.limit)
  <2>1. a + j.limit \in Nat
    BY <1>1
  <2> QED
    BY <1>2, <2>1, Lesser
<1>4. m \in Nat /\ m <= Len(s)
  BY <1>1, <1>2, <1>3
<1>5. n >= 1 => a + n <= m
  <2> SUFFICES ASSUME n >= 1 PROVE a + n <= m
    OBVIOUS
  <2>1. n \in DOMAIN j.out
    BY <1>2
  <2>2. a + n <= Len(s) /\ a + n <= a + j.limit
    BY <1>1, <1>2, <2>1
  <2> QED
    BY <1>3, <2>2
<1> HIDE DEF m, n, a, s
<1>6. n = IF a + 1 <= m THEN m - a ELSE 0
  BY <1>1, <1>2, <1>4, <1>5
<1>7. \A i \in a + 1 .. m : s[i] \in Items
  BY <1>1, <1>2, <1>4, ElementOfSeq
<1>8. /\ slice \in Seq(Items)
      /\ Len(slice) = IF a + 1 <= m THEN m - (a + 1) + 1 ELSE 0
      /\ \A i \in 1 .. m - (a + 1) + 1 : slice[i] = s[(a + 1) + i - 1]
  BY <1>1, <1>4, <1>7, SubSeqProperties
<1>9. Len(slice) = n
  BY <1>1, <1>4, <1>6, <1>8
<1>10. DOMAIN slice = 1 .. n /\ slice = [k \in 1 .. n |-> slice[k]]
  BY <1>8, <1>9, LenProperties
<1>11. ASSUME NEW k \in 1 .. n PROVE slice[k] = j.out[k].item
  <2>1. k \in 1 .. m - (a + 1) + 1 /\ (a + 1) + k - 1 = a + k
    BY <1>1, <1>4, <1>6, <1>2
  <2>2. slice[k] = s[a + k]
    BY <1>8, <2>1
  <2> QED
    BY <1>1, <1>2, <2>2
<1>12. slice = [k \in DOMAIN j.out |-> j.out[k].item]
  BY <1>2, <1>10, <1>11
<1> QED
  BY <1>12 DEF m, n, a, s

\* Contest::lock and unlock: a contest that no thread holds is whole, and a get
\* answers a slice of a whole one, whatever generates and clears it meanwhile.
THEOREM ContestsAreWhole == Spec => []ContestWhole
<1>1. QInv => ContestWhole
  <2> SUFFICES ASSUME QInv PROVE ContestWhole
    OBVIOUS
  <2>1. \A c \in DOMAIN heap : heap[c].owner = Nobody => heap[c].list = heap[c].whole
    BY DEF QInv, RInv, Quiet
  <2>2. ASSUME NEW w \in Workers, At(w, "get", "answer")
        PROVE  LET j == job[w]
                   slice == SubSeq(j.whole, j.from + 1, Min({Len(j.whole), j.from + j.limit}))
               IN  slice = [k \in DOMAIN j.out |-> j.out[k].item]
    <3>1. GetJob(heap, job[w], w) /\ job[w].at = "answer"
      BY <2>2, Kinds DEF QInv, RInv, Working, At
    <3> QED
      BY <3>1, SliceRead
  <2> QED
    BY <2>1, <2>2 DEF ContestWhole
<1> QED
  BY <1>1, RankingInvariance, PTL

=============================================================================
