SPECIFICATION FairSpec
CONSTANTS
  Uids = {r1, r2, r3}
  Overlap = FALSE
  NumSlots = 2
  NumPages = 5
  PageSize = 1
  PrefillBudget = 2
  MaxSeqLen = 5
  PromptLens = {1, 3}
  OutLens = {3}
  MaxAborts = 1
  MayExit = TRUE
INVARIANTS DrainReturnsSlots SlotsExclusive PagesExact NeverCrashes
PROPERTIES ImplementsService Answered
