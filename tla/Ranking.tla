------------------------------- MODULE Ranking -------------------------------
(***************************************************************************)
(* Tops and contests: the threads that walk the users by score (top.cc,    *)
(* contest.cc, contests.cc, TopThread in threads.cc, VectorUsers::top and  *)
(* rank in users.cc) beside the event loop, which starts them, changes the *)
(* scores, and deletes contests.                                           *)
(*                                                                         *)
(* A Contest is an object of the heap that the table of contests names,    *)
(* and that threads keep a pointer to.  Using one that contests delete has *)
(* freed is undefined: wild tells that it happened, and the model goes on  *)
(* as if the memory had kept its contents.                                 *)
(***************************************************************************)
EXTENDS Filter, Integers, Functions

CONSTANTS
  Walk,       \* the VectorUsers that the threads walk, in its order
  Scores,     \* the scores that a field may have; -1: none
  Starts,     \* the scores and groups that the users start with
  Names,      \* the names of contests
  Workers,    \* the detached threads that may run at once (a bound)
  Sizes,      \* the sizes of tops
  Slices,     \* the from and limit of contest gets
  Nobody,     \* the owner of a free mutex
  MaxHeap,    \* a bound on the contests ever made
  MaxQueries, \* a bound on the commands that start threads
  MaxChanges  \* a bound on the changes of scores and users

ASSUME RankingAssumption ==
  /\ Walk \in Seq(UserIds)
  /\ Scores \subseteq Int
  /\ {} \in Groups
  /\ Sizes \subseteq Nat
  /\ Slices \subseteq [from : Nat, limit : Nat]
  /\ Starts \subseteq [score : [UserIds -> Scores], group : [UserIds -> Groups]]
  /\ Nobody \notin Workers

VARIABLES
  score, group, deleted,  \* of each user
  contests,  \* Contests::list: the object each name stands for, or None
  heap,      \* the Contest objects, freed ones too
  vector,    \* who holds the mutex of the VectorUsers
  job,       \* the detached threads
  wild,      \* a freed Contest has been used
  queries, changes

userVars    == <<score, group, deleted, changes>>
contestVars == <<contests, heap, wild>>
rankingVars == <<userVars, contestVars, vector, job, queries>>

None == 0
Idle == [do |-> "nothing"]

NewContest == [list |-> <<>>, owner |-> Nobody, alive |-> TRUE, whole |-> <<>>]

RankingInit ==
  /\ \E s \in Starts : score = s.score /\ group = s.group
  /\ deleted = [u \in UserIds |-> FALSE]
  /\ contests = [n \in Names |-> None]
  /\ heap = <<>>
  /\ vector = Nobody
  /\ job = [w \in Workers |-> Idle]
  /\ wild = FALSE
  /\ queries = 0 /\ changes = 0

-----------------------------------------------------------------------------
\* Lists of items.

Item(u, s) == [user |-> u, score |-> s]

Before(items, i, k) ==
  \/ items[i].score > items[k].score
  \/ items[i].score = items[k].score /\ i < k

\* list::sort(compare_items): the greatest first, and equals as they were.
Sort(items) ==
  [r \in DOMAIN items |->
     items[CHOOSE k \in DOMAIN items :
             Cardinality({i \in DOMAIN items : Before(items, i, k)}) = r - 1]]

Inverse_scores(items) == [i \in DOMAIN items |-> Item(items[i].user, -items[i].score)]

Cut(items, size) == SubSeq(items, 1, Min({size, Len(items)}))

Oriented(s, inversed) == IF inversed THEN -s ELSE s

-----------------------------------------------------------------------------
\* Top

NewTop(size) == [list |-> <<>>, size |-> size, worse |-> None, defined |-> FALSE, count |-> 0]

\* Mutant: resize() comes before sort().
MutNormalize(t) ==
  LET list == Sort(Cut(t.list, t.size))
  IN  {[t EXCEPT !.list = list, !.defined = TRUE, !.worse = s] :
         s \in IF list = <<>> THEN Scores ELSE {Last(list).score}}

\* The last of an empty list is whatever the memory holds.
Normalize(t) ==
  LET list == Cut(Sort(t.list), t.size)
  IN  {[t EXCEPT !.list = list, !.defined = TRUE, !.worse = s] :
         s \in IF list = <<>> THEN Scores ELSE {Last(list).score}}

TopAdd(t, u, s) ==
  LET counted == [t EXCEPT !.count = @ + 1]
      added   == [counted EXCEPT !.list = Append(@, Item(u, s))]
  IN  CASE t.defined /\ s <= t.worse   -> {counted}
        [] Len(added.list) > 2 * t.size -> Normalize(added)
        [] OTHER                        -> {added}

Finalize(t, inversed) ==
  {[n EXCEPT !.list = IF inversed THEN Inverse_scores(@) ELSE @] : n \in Normalize(t)}

-----------------------------------------------------------------------------
\* The event loop.

\* A command comes within the bounds of the model.
Comes == /\ queries < MaxQueries /\ \E w \in Workers : job[w] = Idle
         /\ queries' = queries + 1

Free == CHOOSE w \in Workers : job[w] = Idle

Start(j) ==
  /\ job' = [job EXCEPT ![Free] = j]
  /\ UNCHANGED <<userVars, vector, wild>>

\* top: a where that is not there lets every user through.
StartTop(filter, inversed, size) ==
  /\ Start([do |-> "top", at |-> "vector", filter |-> filter, inversed |-> inversed,
            next |-> 1, seen |-> <<>>, top |-> NewTop(size)])
  /\ UNCHANGED <<contests, heap>>

\* Contests::find_or_create
Created(name) ==
  IF contests[name] # None THEN UNCHANGED <<contests, heap>>
  ELSE /\ heap' = Append(heap, NewContest)
       /\ contests' = [contests EXCEPT ![name] = Len(heap) + 1]

\* contests generate: the contest is made before the end of the command is
\* looked at; complete is whether it is there.
Generate(name, filter, inversed, complete) ==
  /\ contests[name] = None => Len(heap) < MaxHeap
  /\ Created(name)
  /\ IF complete
     THEN Start([do |-> "rank", at |-> "lock", contest |-> contests'[name],
                 filter |-> filter, inversed |-> inversed, next |-> 1, seen |-> <<>>])
     ELSE UNCHANGED <<userVars, vector, job, wild>>

\* contests :: <name> get, find, clear, size
OnContest(name, j) ==
  /\ Comes
  /\ contests[name] # None
  /\ Start(j)
  /\ UNCHANGED <<contests, heap>>

Get(name, from, limit) ==
  OnContest(name, [do |-> "get", at |-> "lock", contest |-> contests[name], from |-> from,
                   limit |-> limit, next |-> from + 1, out |-> <<>>, whole |-> <<>>])
Find(name, u) == OnContest(name, [do |-> "find", at |-> "lock", contest |-> contests[name],
                                  user |-> u, position |-> -1])
Clear(name)   == OnContest(name, [do |-> "clear", at |-> "lock", contest |-> contests[name]])

\* Mutant: the name of a deleted contest is kept.
MutDelete(name) ==
  /\ contests[name] # None
  /\ heap' = [heap EXCEPT ![contests[name]].alive = FALSE]
  /\ UNCHANGED <<userVars, contests, vector, job, wild, queries>>

\* contests delete frees at once, and answers nothing.
Delete(name) ==
  /\ contests[name] # None
  /\ heap' = [heap EXCEPT ![contests[name]].alive = FALSE]
  /\ contests' = [contests EXCEPT ![name] = None]
  /\ UNCHANGED <<userVars, vector, job, wild, queries>>

\* Commands on users, or a cleanup.
ChangeUser ==
  /\ changes < MaxChanges
  /\ changes' = changes + 1
  /\ \E u \in UserIds :
       \/ \E s \in Scores \ {score[u]} :
            score' = [score EXCEPT ![u] = s] /\ UNCHANGED <<group, deleted>>
       \/ group[u] # {} /\ group' = [group EXCEPT ![u] = {}] /\ UNCHANGED <<score, deleted>>
       \/ ~deleted[u] /\ deleted' = [deleted EXCEPT ![u] = TRUE] /\ UNCHANGED <<score, group>>
  /\ UNCHANGED <<contestVars, vector, job, queries>>

-----------------------------------------------------------------------------
\* The threads.

At(w, do, step) == job[w].do = do /\ job[w].at = step

Goes(w, j) == job' = [job EXCEPT ![w] = j] /\ UNCHANGED <<userVars, contests, queries>>

Ends(w) == Goes(w, Idle)

Uses(c) == wild' = (wild \/ ~heap[c].alive)

\* Mutant: the mutex of the contest is not taken.
MutUnlocked(c) == TRUE

Unlocked(c) == heap[c].owner = Nobody

\* Contest::lock; a generate and a clear empty the contest.
LockContest(w) ==
  /\ job[w].do \in {"rank", "get", "find", "clear"} /\ job[w].at = "lock"
  /\ LET j == job[w]
         c == j.contest
         list == IF j.do \in {"rank", "clear"} THEN <<>> ELSE heap[c].list
     IN  /\ Unlocked(c)
         /\ heap' = [heap EXCEPT ![c].owner = w, ![c].list = list,
                                 ![c].whole = IF j.do \in {"rank", "clear"} THEN <<>> ELSE @]
         /\ Uses(c)
         /\ Goes(w, CASE j.do = "rank"  -> [j EXCEPT !.at = "vector"]
                      [] j.do = "get"   -> [j EXCEPT !.at = "emit", !.whole = list]
                      [] j.do = "find"  ->
                           [j EXCEPT !.at = "unlock",
                              !.position = SelectInSeq(list, LAMBDA e : e.user = j.user) - 1]
                      [] j.do = "clear" -> [j EXCEPT !.at = "unlock"])
  /\ UNCHANGED vector

LockVector(w) ==
  /\ job[w].do \in {"top", "rank"} /\ job[w].at = "vector"
  /\ vector = Nobody /\ vector' = w
  /\ Goes(w, [job[w] EXCEPT !.at = "visit"])
  /\ UNCHANGED <<heap, wild>>

Passes(j, u) == ~deleted[u] /\ [id |-> u, group |-> group[u]] \in j.filter

\* One user of a top, under User::lock.
VisitTop(w) ==
  /\ At(w, "top", "visit") /\ job[w].next <= Len(Walk)
  /\ LET j == job[w]
         u == Walk[j.next]
         s == Oriented(score[u], j.inversed)
         n == [j EXCEPT !.next = @ + 1]
     IN  IF Passes(j, u)
         THEN \E t \in TopAdd(j.top, u, s) :
                Goes(w, [n EXCEPT !.top = t, !.seen = Append(@, Item(u, s))])
         ELSE Goes(w, n)
  /\ UNCHANGED <<vector, heap, wild>>

\* One user of a generate: one without a score is left out.
VisitRank(w) ==
  /\ At(w, "rank", "visit") /\ job[w].next <= Len(Walk)
  /\ LET j == job[w]
         u == Walk[j.next]
         e == Item(u, Oriented(score[u], j.inversed))
         n == [j EXCEPT !.next = @ + 1]
     IN  IF Passes(j, u) /\ score[u] # -1
         THEN /\ heap' = [heap EXCEPT ![j.contest].list = Append(@, e)]
              /\ Uses(j.contest)
              /\ Goes(w, [n EXCEPT !.seen = Append(@, e)])
         ELSE Goes(w, n) /\ UNCHANGED <<heap, wild>>
  /\ UNCHANGED vector

EndTop(w) ==
  /\ At(w, "top", "visit") /\ job[w].next > Len(Walk)
  /\ vector' = Nobody
  /\ \E t \in Finalize(job[w].top, job[w].inversed) :
       Goes(w, [job[w] EXCEPT !.at = "answer", !.top = t])
  /\ UNCHANGED <<heap, wild>>

\* Contest::finalize and inverse_scores, after the vector is unlocked.
EndRank(w) ==
  /\ At(w, "rank", "visit") /\ job[w].next > Len(Walk)
  /\ vector' = Nobody
  /\ LET j == job[w]
         c == j.contest
         sorted == Sort(heap[c].list)
     IN  /\ heap' = [heap EXCEPT ![c].list = IF j.inversed THEN Inverse_scores(sorted) ELSE sorted,
                                 ![c].whole = IF j.inversed THEN Inverse_scores(Sort(j.seen))
                                              ELSE Sort(j.seen)]
         /\ Uses(c)
         /\ Goes(w, [j EXCEPT !.at = "unlock"])

\* TopBase::serialize_php: under User::lock, who is deleted is not shown.
Emit(w) ==
  /\ At(w, "get", "emit")
  /\ LET j == job[w]
         list == heap[j.contest].list
     IN  /\ j.next <= Min({Len(list), j.from + j.limit})
         /\ Goes(w, [j EXCEPT !.next = @ + 1,
                              !.out = Append(@, [shown |-> ~deleted[list[j.next].user],
                                                  item |-> list[j.next]])])
         /\ Uses(j.contest)
  /\ UNCHANGED <<vector, heap>>

EmitEnd(w) ==
  /\ At(w, "get", "emit")
  /\ LET j == job[w]
     IN  /\ j.next > Min({Len(heap[j.contest].list), j.from + j.limit})
         /\ Goes(w, [j EXCEPT !.at = "unlock"])
         /\ Uses(j.contest)
  /\ UNCHANGED <<vector, heap>>

\* Mutant: a find returns while the contest is locked.
MutUnlockContest(w) ==
  /\ job[w] # Idle /\ job[w].at = "unlock"
  /\ LET c == job[w].contest
     IN  /\ heap' = [heap EXCEPT ![c].owner = IF job[w].do = "find" THEN @ ELSE Nobody]
         /\ Uses(c)
  /\ Goes(w, [job[w] EXCEPT !.at = "answer"])
  /\ UNCHANGED vector

UnlockContest(w) ==
  /\ job[w] # Idle /\ job[w].at = "unlock"
  /\ LET c == job[w].contest
     IN  /\ heap' = [heap EXCEPT ![c].owner = Nobody]
         /\ Uses(c)
  /\ Goes(w, [job[w] EXCEPT !.at = "answer"])
  /\ UNCHANGED vector

\* The answer of a find takes the size with the contest unlocked.
Answer(w) ==
  /\ job[w] # Idle /\ job[w].at = "answer"
  /\ IF job[w].do = "find" THEN Uses(job[w].contest) ELSE UNCHANGED wild
  /\ Ends(w)
  /\ UNCHANGED <<vector, heap>>

Thread(w) ==
  \/ LockContest(w) \/ LockVector(w)
  \/ VisitTop(w) \/ EndTop(w) \/ VisitRank(w) \/ EndRank(w)
  \/ Emit(w) \/ EmitEnd(w) \/ UnlockContest(w) \/ Answer(w)

-----------------------------------------------------------------------------
RankingOK ==
  /\ score \in [UserIds -> Scores] /\ group \in [UserIds -> Groups]
  /\ deleted \in [UserIds -> BOOLEAN]
  /\ contests \in [Names -> 0 .. Len(heap)]
  /\ \A n \in Names : contests[n] # None => heap[contests[n]].alive
  /\ \A c \in DOMAIN heap : heap[c].owner \in Workers \cup {Nobody}
  /\ vector \in Workers \cup {Nobody}
  /\ wild \in BOOLEAN

\* The answer of a top is the size best of all the users it saw, in order,
\* with users of one score in the order of the vector, although Top keeps
\* no more than twice size of them and sorts only when these are full
\* (Top::add, Top::normalize, VectorUsers::top).
TopIsTop ==
  \A w \in Workers : At(w, "top", "answer") =>
    LET j == job[w]
        best == Cut(Sort(j.seen), j.top.size)
    IN  /\ j.top.list = IF j.inversed THEN Inverse_scores(best) ELSE best
        /\ j.top.count = Len(j.seen)

\* A contest that no thread holds is what one generate, whole, made of the
\* users it saw, or empty; and a get answers a slice of such a contest,
\* whatever generates, clears and deletions of users run beside it, unless
\* the contest was deleted (Contest::lock in RankThread, ContestGetThread).
ContestWhole ==
  ~wild =>
    /\ \A c \in DOMAIN heap : heap[c].owner = Nobody => heap[c].list = heap[c].whole
    /\ \A w \in Workers : At(w, "get", "answer") =>
         LET j == job[w]
             slice == SubSeq(j.whole, j.from + 1, Min({Len(j.whole), j.from + j.limit}))
         IN  slice = [k \in DOMAIN j.out |-> j.out[k].item]

\* Every thread ends, and answers (RankThread, TopThread, ContestGetThread:
\* the lock of the contest comes before the lock of the vector).
ThreadsEnd == \A w \in Workers : job[w] # Idle ~> job[w] = Idle
=============================================================================
