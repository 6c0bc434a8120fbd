SPECIFICATION MCSpec
CONSTANTS
  NumCTAs = 4
  NumBarriers = 3
  SenseMod = 2
  Devices = {48, 188}
  Envs <- MCEnvs
  Requests <- MCRequests
  MaxShared = 101376
  SmShared = 102400
  CtaReserved = 1024
  SmRegisters = 65536
  Default = Default
  Stages = 3
  Bundles = 2
  Ctas <- MCCtas
  Works <- MCWorks
  None = None
  launch_x = 3
  Fc1 <- MCFc1
  Fc2 <- MCFc2
  NotStored = NotStored
INVARIANTS PhasesSeparate GridResident Fc1Unsplit PipelineSafe ZeroedBuildSafe
PROPERTIES ImplementsBarrier BarrierLetsGo
