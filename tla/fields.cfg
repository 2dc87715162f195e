CONSTANTS
  u1 = u1  u2 = u2
  Values <- MCValues
  Counts = 4
  HourTicks = 1
  HoursPerDay = 2
  DaysPerMonth = 1
  Lag = 1
  MaxClock = 3
  MaxBack = 1
  Window <- MCWindow
  MarksWindow = 2
  LogWindow <- MCLogWindow
  Precision = 10
  Users = {u1, u2}
  Names = {"f", "g"}
  MaxFields = 1
  Configs <- MCConfigs
  NewTypes = {"int"}
  Amounts <- MCAmounts
  Totals <- MCTotals
  Items = {3}
  MaxCommands <- MCMaxCommands
  MaxRestarts = 1
  MaxReports = 1
SPECIFICATION Spec
SYMMETRY Symmetry
INVARIANTS TypeOK WindowsAreTallies ScoresFollowTallies UlogKeepsNewest ReportAligned
PROPERTIES RestoreKeepsFields TimeNeverGoesBack 
CHECK_DEADLOCK FALSE
