SPECIFICATION Spec
CONSTANTS
  Uids = {r1, r2}
  Overlap = FALSE
  NumSlots = 2
  NumPages = 3
  PageSize = 4
  PrefillBudget = 8
  MaxSeqLen = 12
  PromptLens = {4}
  OutLens = {2}
  MaxAborts = 0
  MayExit = FALSE
INVARIANT RoomForBatch
