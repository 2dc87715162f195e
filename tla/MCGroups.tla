------------------------------- MODULE MCGroups -------------------------------
EXTENDS Groups, Bitwise
CONSTANTS ann, bob, fr, uk
MCBoth(i, j)   == i & j
MCEither(i, j) == i | j
MCChosen == {<<>>, <<fr>>, <<uk>>, <<fr, uk>>, <<uk, fr>>}

ByName == [id |-> 0, mask |-> 0]
Low    == [id |-> 1, mask |-> 0]
High   == [id |-> 2, mask |-> 0]
Bits   == {[id |-> 4, mask |-> 12], [id |-> 1, mask |-> 1]}
Masked == [id |-> 0, mask |-> 12]

MCScenarios ==
  {[commands |-> 4, threads |-> 2, restarts |-> 1, faults |-> 0, slave |-> FALSE, given |-> {ByName}],
   [commands |-> 4, threads |-> 1, restarts |-> 0, faults |-> 0, slave |-> FALSE, given |-> {ByName, Low, High}],
   [commands |-> 4, threads |-> 1, restarts |-> 0, faults |-> 0, slave |-> FALSE, given |-> Bits \cup {ByName}],
   [commands |-> 4, threads |-> 1, restarts |-> 0, faults |-> 1, slave |-> TRUE, given |-> {ByName, High, Masked}],
   [commands |-> 4, threads |-> 0, restarts |-> 0, faults |-> 1, slave |-> TRUE, given |-> Bits]}

Symmetry == Permutations(Users) \cup Permutations(Names)
=============================================================================
