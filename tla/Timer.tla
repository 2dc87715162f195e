-------------------------------- MODULE Timer --------------------------------
(***************************************************************************)
(* Timer (timer.cc): the time as the fields see it.  refresh() reads the   *)
(* clock of the host, unless a scan of all the users holds the timer, and  *)
(* takes a new hour, day and month from it at most once in 10 seconds.     *)
(***************************************************************************)
EXTENDS Integers

CONSTANTS
  HourTicks,     \* the ticks of time() in an hour
  HoursPerDay,
  DaysPerMonth,  \* the calendar has one length of month here
  Lag,           \* the 10 seconds of refresh(), in ticks
  MaxClock,      \* a bound on the clock
  MaxBack        \* a bound on how often the clock is set back

ASSUME TimerAssumption ==
  /\ {HourTicks, HoursPerDay, DaysPerMonth, Lag} \subseteq Nat \ {0}
  /\ MaxClock \in Nat
  /\ MaxBack \in Nat

VARIABLES
  clock,  \* time() of the host
  timer,  \* Timer::update, now, and at: hour, day and month
  locks,  \* Timer::lock_count
  back    \* how often the clock has been set back

timeVars == <<clock, timer, locks, back>>

Units == {"hours", "days", "months"}

Calendar(t) ==
  LET hour == t \div HourTicks
      day  == hour \div HoursPerDay
  IN  [hours |-> hour, days |-> day, months |-> day \div DaysPerMonth]

\* The first refresh() of a process always finds update too old.
Unset == [update |-> -Lag, now |-> 0, at |-> [x \in Units |-> 0]]

TimerInit ==
  /\ clock = 0
  /\ timer = Unset
  /\ locks = 0
  /\ back = 0

\* Mutant: a clock that was set back is followed at once.
MutRefreshed ==
  IF clock = timer.update
  THEN [timer EXCEPT !.now = clock]
  ELSE [update |-> clock, now |-> clock, at |-> Calendar(clock)]

\* What refresh() writes once it has found lock_count zero.
Refreshed ==
  IF clock - timer.update < Lag
  THEN [timer EXCEPT !.now = clock]
  ELSE [update |-> clock, now |-> clock, at |-> Calendar(clock)]

Tick ==
  /\ clock < MaxClock
  /\ clock' = clock + 1
  /\ UNCHANGED <<timer, locks, back>>

SetBack ==
  /\ back < MaxBack
  /\ clock > 0
  /\ clock' = clock - 1
  /\ back' = back + 1
  /\ UNCHANGED <<timer, locks>>
=============================================================================
