CONSTANTS
  u1 = u1  u2 = u2  s1 = s1
  Ids = {u1, u2}
  Stripes = {s1}
  Stripe <- MCStripe
  Restored <- MCRestored
  Main = Main  AutoDump = AutoDump  Vector = Vector  NewUsers = NewUsers
  Nobody = Nobody  NoUser = NoUser
  Workers = {w1}
  Sets = {set}
  AutodumpOn = TRUE
  Commands = {"user_clear"}
  Jobs = {"cleanup", "walk", "select", "sets_clear", "dump"}
SPECIFICATION FairSpec
INVARIANTS TypeOK LocksHeld StoreConserved AddNeverWaits
PROPERTIES Drains
