CONSTANTS
  ann = ann  bob = bob  fr = fr  uk = uk
  Master = Master  Replica = Replica
  Users = {ann, bob}
  Names = {fr, uk}
  NoName = NoName
  Unknown = Unknown
  Both <- MCBoth
  Either <- MCEither
  Chosen <- MCChosen
  Scenarios <- MCScenarios
SPECIFICATION Spec
SYMMETRY Symmetry
INVARIANTS TypeOK UsersAreGrouped SlaveFollows NamesComeBack
PROPERTIES NewGroupIsFresh
CHECK_DEADLOCK FALSE
