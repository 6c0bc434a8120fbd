SPECIFICATION MCSpec
CONSTANTS
  W = 2
  I = 2
  BlockSize = 2
  K = 4
  BlockN = 2
  Exact = 16
  Garbage = 9
  MaxScore = 1
  Members = {0, 1, 2}
  Keys = {"q", "o", "late"}
  Programs <- MCPrograms
  ImportFailures = {{}, {0, 1, 2}}
  Eager = "eager"
  Profile = {"target:profile"}
  MaxFaults = 1
  None = None
INVARIANTS RanksAttendRight RanksAligned ChannelsSound
PROPERTY AllFinish
