------------------------------- MODULE Roster -------------------------------
(***************************************************************************)
(* What the users store promises to a job that lists all the users, a dump *)
(* for one: the list names no user twice, names every user that was there  *)
(* from the job's start to its end, and names only users that were there   *)
(* at some moment in between.                                              *)
(***************************************************************************)
EXTENDS Naturals, Sequences, Functions

CONSTANTS Ids, Jobbers

VARIABLES
  present,  \* the users there are
  phase,    \* "idle", "running", "reported": where each job is
  always,   \* the users present ever since the job started
  ever,     \* the users present at some moment since the job started
  report    \* the list a job has made

vars == <<present, phase, always, ever, report>>

Init ==
  /\ present \in SUBSET Ids
  /\ phase = [t \in Jobbers |-> "idle"]
  /\ always = [t \in Jobbers |-> {}]
  /\ ever = [t \in Jobbers |-> {}]
  /\ report = [t \in Jobbers |-> <<>>]

\* A user comes or goes while jobs run.
Change(P) ==
  /\ present' = P
  /\ always' = [t \in Jobbers |-> always[t] \cap P]
  /\ ever' = [t \in Jobbers |->
               IF phase[t] = "idle" THEN ever[t] ELSE ever[t] \cup P]
  /\ UNCHANGED <<phase, report>>

Begin(t) ==
  /\ phase[t] = "idle"
  /\ phase' = [phase EXCEPT ![t] = "running"]
  /\ always' = [always EXCEPT ![t] = present]
  /\ ever' = [ever EXCEPT ![t] = present]
  /\ UNCHANGED <<present, report>>

Report(t) ==
  /\ phase[t] = "running"
  /\ phase' = [phase EXCEPT ![t] = "reported"]
  /\ IsInjective(report'[t])
  /\ always[t] \subseteq Range(report'[t])
  /\ Range(report'[t]) \subseteq ever[t]
  /\ report' = [report EXCEPT ![t] = report'[t]]
  /\ UNCHANGED <<present, always, ever>>

End(t) ==
  /\ phase[t] = "reported"
  /\ phase' = [phase EXCEPT ![t] = "idle"]
  /\ always' = [always EXCEPT ![t] = {}]
  /\ ever' = [ever EXCEPT ![t] = {}]
  /\ report' = [report EXCEPT ![t] = <<>>]
  /\ UNCHANGED present

Next ==
  \/ \E P \in SUBSET Ids : Change(P)
  \/ \E t \in Jobbers : Begin(t) \/ Report(t) \/ End(t)

Spec == Init /\ [][Next]_vars

=============================================================================
