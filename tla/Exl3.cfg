SPECIFICATION MCSpec
CONSTANTS
  None = None
  LoadRanks = 2
  LoadExperts = 2
  PartSizes = {2, 4}
  Tile = 2
  LoadBlock = 4
  Bits = {3, 4}
  LinearRanks = 4
  Widths = {1, 2, 4}
  Inputs = 8
  LinearBlock = 2
  KvHeads = 2
  QueryHeads = 8
  NumExperts = 3
  Ks = {3, 4, 5}
  Uneven = {0, 1}
  MaxBudget = 1
  Layers <- MCLayers
  Envs <- MCEnvs
  BatchLimits = {2, 7}
  CaptureSizes = {1, 2, 4}
INVARIANTS LoadedOrRefused ComputesOwnPart PackedOrRefused RowsOnce ScratchSound
