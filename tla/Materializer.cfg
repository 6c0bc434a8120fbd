SPECIFICATION Spec
CONSTANTS
  Aux = {"tokenizer"}
  Rekeyed = {"e1"}
  Native = {"n1", "n2"}
  Workers = {"w1", "w2"}
  ShardOf <- MCShardOf
  Ranges = 2
  attempts = 2
  MaxKills = 1
  MaxFaults = 2
  None = None
  Bad = Bad
INVARIANT FilesSound
PROPERTIES ServedFilesStay ImplementsPublication Converges
