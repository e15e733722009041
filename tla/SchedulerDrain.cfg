SPECIFICATION Spec
CONSTANTS
  Uids = {r1, r2}
  Overlap = FALSE
  NumSlots = 2
  NumPages = 5
  PageSize = 2
  PrefillBudget = 4
  MaxSeqLen = 5
  PromptLens = {2, 3}
  OutLens = {2}
  MaxAborts = 0
  MayExit = TRUE
INVARIANT DrainPassesIntegrity
