CONSTANTS
  u1 = u1  u2 = u2
  Values <- MCValues
  Counts = 4
  HourTicks = 1
  HoursPerDay = 2
  DaysPerMonth = 1
  Lag = 1
  MaxClock = 3
  MaxBack = 1
  Window <- MCWindow
  MarksWindow = 2
  LogWindow <- MCLogWindow
  Precision = 10
  Users = {u1, u2}
  Names = {"f", "g"}
  MaxFields = 1
  Configs <- LogConfigs
  NewTypes = {"int"}
  Amounts <- MCAmounts
  Totals <- MCTotals
  Items = {3}
  MaxCommands <- MCMaxCommands
  MaxRestarts = 0
  MaxReports = 0
SPECIFICATION Spec
SYMMETRY Symmetry
INVARIANTS LogKeepsNewest
CHECK_DEADLOCK FALSE
