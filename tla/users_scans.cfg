CONSTANTS
  u1 = u1  u2 = u2  s1 = s1
  Ids = {u1, u2}
  Stripes = {s1}
  Stripe <- MCStripe
  Restored <- MCRestored
  Main = Main  AutoDump = AutoDump  Vector = Vector  NewUsers = NewUsers
  Nobody = Nobody  NoUser = NoUser
  Workers = {w1, w2}
  Sets = {set}
  AutodumpOn = FALSE
  Commands = {"field"}
  Jobs = {"visit", "cleanup", "select", "sets_clear"}
SPECIFICATION HSpec
SYMMETRY Symmetry
INVARIANTS ScanCoversVector CountMissesOnlyParked
