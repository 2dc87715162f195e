------------------------------ MODULE MCSessions ------------------------------
EXTENDS Sessions
CONSTANTS t1, t2

\* The reference counts; the transaction ids; the pieces; the failures.
MCScenarios ==
  {[conns |-> 1, threads |-> {t1, t2}, queries |-> 3, faults |-> 0,
    kinds |-> {"refused", "late", "quit"}, waits |-> {FALSE}, sizes |-> {1}],
   [conns |-> 2, threads |-> {t1}, queries |-> 3, faults |-> 0,
    kinds |-> {"now", "late"}, waits |-> BOOLEAN, sizes |-> {1}],
   [conns |-> 2, threads |-> {t1}, queries |-> 2, faults |-> 0,
    kinds |-> {"late", "quit"}, waits |-> BOOLEAN, sizes |-> {2}],
   [conns |-> 2, threads |-> {t1}, queries |-> 2, faults |-> 1,
    kinds |-> {"quit", "mute", "late"}, waits |-> {TRUE}, sizes |-> {2}]}
===============================================================================
