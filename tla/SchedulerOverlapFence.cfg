SPECIFICATION Spec
CONSTANTS
  Uids = {r1, r2, r3}
  Overlap = TRUE
  NumSlots = 2
  NumPages = 5
  PageSize = 1
  PrefillBudget = 2
  MaxSeqLen = 5
  PromptLens = {1, 3}
  OutLens = {1, 3}
  MaxAborts = 1
  MayExit = FALSE
SYMMETRY UidSymmetry
INVARIANTS TypeOK FenceHolds ReqBounds OneTrailingToken ExactUnlessLate
PROPERTIES AbortSilences AckMeansReleased
