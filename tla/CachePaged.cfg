SPECIFICATION FairSpec
CONSTANTS
  Overlap = FALSE
  r1 = r1  r2 = r2  r3 = r3  a = a  b = b
  Reqs <- ThreeReqs
  Tokens <- BothTokens
  Prompts <- Odd
  OutLens = {3}
  NumPages = 4
  PageSize = 2
  NumRows = 2
  PrefillBudget = 3
INVARIANTS PagesOnce RowsValid
PROPERTIES IsPrefixStore Admitted
