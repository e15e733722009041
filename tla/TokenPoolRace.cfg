SPECIFICATION PoolSpec
CONSTANTS
  Uids = {r1, r2}
  Modes = {TRUE}
  NumRows = 1
  RowWidth = 5
  Budget = 4
  PromptLens = {1, 3}
  OutLens = {3}
  MayStop = FALSE
  MayAbort = TRUE
INVARIANT ReadsIntended
CHECK_DEADLOCK FALSE
