SPECIFICATION Spec
CONSTANTS
  Overlap = TRUE
  r1 = r1  r2 = r2  r3 = r3  a = a  b = b
  Reqs <- ThreeReqs
  Tokens <- BothTokens
  Prompts <- Uneven
  OutLens = {2}
  NumPages = 5
  PageSize = 1
  NumRows = 2
  PrefillBudget = 2
INVARIANTS TypeOK RefsExact TreeSound NeverFails PagesOnce CacheTruthful
