SPECIFICATION MCSpec
CONSTANTS
  grid_x = 4
  Problems <- MCProblems
  Unwritten = Unwritten
  launch_x = 3
  Fc1 <- MCFc1
  Fc2 <- MCFc2
  FullRotation = TRUE
  Gated = TRUE
  TcZero = TRUE
  ZeroFc2 = FALSE
  SenseMod = 2
  NotStored = NotStored
INVARIANTS SlotsSound PhasesSafe LaunchCorrect
PROPERTIES ImplementsTileGemm GemmTerminates LaunchEnds
