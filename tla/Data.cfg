SPECIFICATION DataSpec
CONSTANTS
  Uids = {r1, r2, r3}
  Modes = {TRUE, FALSE}
  NumRows = 1
  RowWidth = 5
  Budget = 2
  PromptLens = {1, 3, 4}
  OutLens = {1, 2}
  MayStop = TRUE
  MayAbort = TRUE
  NumReqs = 2
  Width = 4
  PageSizes = {1, 2, 3}
  Graphs <- GraphLists
  MaxPrefill = 2
  MaxBatches = 2
  Numerals <- TwoNames
  Configs <- Models
  Sizes = {1, 2, 4}
  HeadDim = 2
  MaxBatch = 3
  RunConfigs <- TwoLayers
  Ranks = {1, 2}
  Platforms = {"cuda", "metax"}
  MaxTokens = 4
  NumExperts = 2
  MaxTopK = 2
  Neurons = 1
  HiddenSize = 3
  FewTokens <- FewConfig
  ManyTokens <- ManyConfig
  StreamUids = {1, 2}
  Kinds = {"word", "torn", "cut", "rest", "eos"}
  MaxStreamed = 4
  Logits <- LogitRows
  Temperatures = {0, 1}
  TopKs <- Limits
  TopPs = {0, 5, 10}
  MaxSampled = 2
INVARIANTS TokensIntended LayoutRight ShardsRight ForwardRight
INVARIANTS BackendsMatch TextFaithful DrawnRight
CHECK_DEADLOCK FALSE
