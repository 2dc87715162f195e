----------------------------- MODULE DumpedFile -----------------------------
(***************************************************************************)
(* What an operator expects of the files autodump writes: a file is always *)
(* one whole dump, and changes at once to one that began later.            *)
(***************************************************************************)
EXTENDS Integers

CONSTANT Targets

VARIABLE version  \* number of the dump a file holds, 0 if there is no file

Init == version \in [Targets -> Nat]

Replace(f) ==
  /\ version'[f] > version[f]
  /\ version' = [version EXCEPT ![f] = version'[f]]

Next == \E f \in Targets : Replace(f)

Spec == Init /\ [][Next]_version

=============================================================================
