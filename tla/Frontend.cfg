SPECIFICATION FairSpec
CONSTANTS
  r1 = r1  r2 = r2
  Uids <- TwoUids
  Endpoints <- AnyAndCollect
  NumTokenizers = 2
  MaxOut <- TwoAndOne
INVARIANTS InOrder Purged Leftovers AckIsFinal
PROPERTIES EveryoneEnds
CHECK_DEADLOCK FALSE
