SPECIFICATION MCSpec
CONSTANTS
  Ranks = {1, 2}
  Reqs = {1, 2}
  Prompt <- PromptLengths
  MaxLen <- Limits
  NumSlots = 2
  NumSpec = 1
  BlockSize = 2
  NumBlocks = 5
  Ahead = 1
  MaxEvents = 1
  Bad = Bad
  None = None
  NoValue = NoValue
  Sizes = {1, 2, 4, 6}
  MaxReqs = 3
  MaxQuery = 4
  Depths = {1, 2, 3}
  Configs <- MCConfigs
  Target = target
  Cfg <- MCCfg
  Batches <- MCBatches
  draft = draft
  Samples = 2
  Early = {w1}
  Late = {w2, w3}
  Adaptive = TRUE
  MaxInits = 3
  Calls <- MCCalls
  TooLarge <- MCTooLarge
  Ids = {k1, k2}
  NoId = noId
  Layers = {1, 2}
  Addresses = {1, 2, 3, 4, 5}
  WeightPlans <- MCPlans
  MaxLoads = 3
  MaxFailures = 1
  Tile = 4
  NumExperts = 3
  Chunk = 2
  Shapes <- MCShapes
INVARIANTS TokensRight InputsRight DispatchSound ProfilingSound RunsOwnKernel WarmServed ReadsOwnWeights RepackedRight
