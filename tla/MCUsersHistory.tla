---------------------------- MODULE MCUsersHistory ----------------------------
EXTENDS UsersHistory, TLC
CONSTANTS u1, u2, s1
MCStripe == [u \in Ids |-> s1]
MCRestored == <<u1>>
Symmetry == Permutations(Workers)
=============================================================================
