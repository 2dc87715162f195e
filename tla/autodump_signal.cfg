CONSTANTS
  Main = Main  AutoDump = AutoDump  Handler = Handler  Nobody = Nobody
  Workers = {w1}
  Home = home  Targets = {home}  DumpPaths = {other}
  NoTarget = NoTarget  NoFile = NoFile
  Pieces = 2
  MaxDumps = 3
  Signals = TRUE
  FullDisk = {}
SPECIFICATION FairSpec
PROPERTIES Terminates
