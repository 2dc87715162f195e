CONSTANTS
  Conns = {1, 2}
  NoConn = NoConn
  t1 = t1
  t2 = t2
  Threads = {t1, t2}
  Loop = Loop
  TidLimit = 2
  Scenarios <- MCScenarios
SPECIFICATION Spec
INVARIANTS TypeOK FreedWhenUnused OneStrayPiece WrongAnswerHasNoTid
PROPERTIES ClosedClientsAreFreed
CHECK_DEADLOCK FALSE
