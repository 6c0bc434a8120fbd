SPECIFICATION MemSpec
CONSTANTS
  NumCTAs = 2
  NumBarriers = 2
  SenseMod = 4
INVARIANT BarrierPublishes
