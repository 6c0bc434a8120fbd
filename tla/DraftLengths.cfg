SPECIFICATION MCSpec
CONSTANTS
  GroupRanks = {0, 1}
  LastLayer = 2
  MergeLayers = {0}
  Depth = 1
  MaxRings = 1
  Builders = {"a", "b"}
  Scripts <- MCScripts
  MaxSteps = 4
  Ahead = 1
  None = None
  NumReqs = 2
  NumLayers = 4
  Steps = 3
  PromptLen = 2
  MaxLen = 11
  Freqs = {1, 2, 3}
  Offsets = {1, 2, 3}
  Patterns <- MCPatterns
  BlockSize = 2
  Exact = 16
  Garbage = 9
  MaxScore = 1
INVARIANTS DraftsAttendTopK
