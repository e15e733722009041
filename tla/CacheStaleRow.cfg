SPECIFICATION Spec
CONSTANTS
  Overlap = FALSE
  r1 = r1  r2 = r2  r3 = r3  a = a  b = b
  Reqs <- TwoReqs
  Tokens <- BothTokens
  Prompts <- Forking
  OutLens <- UpTo2
  NumPages = 5
  PageSize = 1
  NumRows = 1
  PrefillBudget = 3
INVARIANTS RowsValid
