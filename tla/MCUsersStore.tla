---------------------------- MODULE MCUsersStore ----------------------------
EXTENDS UsersStore, TLC
CONSTANTS u1, u2, s1
MCStripe == [u \in Ids |-> s1]
MCRestored == <<u1>>
=============================================================================
