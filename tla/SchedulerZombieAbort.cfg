SPECIFICATION Spec
CONSTANTS
  Uids = {r1, r2}
  Overlap = TRUE
  NumSlots = 2
  NumPages = 5
  PageSize = 1
  PrefillBudget = 2
  MaxSeqLen = 5
  PromptLens = {1}
  OutLens = {2}
  MaxAborts = 1
  MayExit = FALSE
INVARIANT SlotsExclusive
