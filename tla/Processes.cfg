SPECIFICATION ProcessesSpec
CONSTANTS
  Size = 3
  MaxMsgs = 2
  MaxWork = 1
  Worlds = {1, 2}
  Tokenizers = {0, 1}
  Memories = {30, 32, 33}
  Weights = 10
  PageMemory = 1
  Imbalance = 2
  Percent = 90
  Loops = {TRUE, FALSE}
  MaxCalls = 2
  MaxPrompts = 2
  Lengths = {1, 3, 4}
  Outputs = {1, 3}
  MaxLength = 4
  Allowance = 2
INVARIANTS RanksAgree ServesWhole CacheAgreed OutputsComplete
PROPERTIES NobodyHangs
CHECK_DEADLOCK FALSE
