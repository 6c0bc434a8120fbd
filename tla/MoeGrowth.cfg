SPECIFICATION Spec
CONSTANTS
  Experts = 256
  TopK = 8
  Hidden = 1024
  Inter = 1024
  Layers = {"l1", "l2"}
  Tokens = {4, 250, 480, 1500, 2048}
  Modes <- MCGrowing
  LogitBytes = 2
  MaxStores = 3
INVARIANT GrownLaunchFits
