CONSTANTS
  ann = ann  bob = bob  cy = cy
  w1 = w1  w2 = w2
  nobody = nobody  NoExpr = NoExpr
  UserIds = {ann, bob, cy}
  Matches <- MCMatches
  Group <- MCGroup
  Texts <- MCTexts
  RankTexts <- MCRankTexts
  Walk <- MCWalk
  Scores <- MCScores
  Starts <- MCStarts
  Groups <- MCGroups
  Names = {"c"}
  Workers = {w1, w2}
  Sizes = {0, 1}
  Slices <- MCSlices
  Nobody = nobody
  MaxHeap = 2
  MaxQueries = 2
  MaxChanges = 1
SPECIFICATION Spec
INVARIANTS TypeOK FilterMeansWhatItSays UnderflowIsMissingOperand AcceptedIsBalanced TopIsTop ContestWhole
PROPERTIES ThreadsEnd
CHECK_DEADLOCK FALSE
